---- MODULE Spec2Model ----
(***************************************************************************)
(* A model of pytype's abstract bytecode interpreter (pytype/vm.py): the   *)
(* frame stack, run_frame's pass over the blocks of a code object,         *)
(* run_instruction, call_function, attribute resolution and binary         *)
(* operator dispatch, on top of a small typegraph (CFG nodes, Variables,   *)
(* Bindings, Origins).                                                     *)
(*                                                                         *)
(* The abstract values (pytype/abstract.py), the typegraph                 *)
(* (pytype/pytd/cfg.py) and FrameState (pytype/state.py) are collaborators *)
(* of vm.py.  What a value's call() or get_attribute() answers is chosen   *)
(* by the environment at the moment of the call, within the interface the  *)
(* interpreter relies on; the give-up value (Unsolvable) always answers    *)
(* with itself.                                                            *)
(***************************************************************************)
EXTENDS Integers, Sequences, FiniteSets, TLC

VARIABLES
  frames,     \* vm.frames: the call stack, a sequence of frame records
  frame,      \* vm.frame: the id of the current frame, 0 for None
  nframes,    \* number of frames created so far (frame ids)
  vars,       \* program variables: vars[v] is the sequence of bindings of v
  nnodes,     \* number of CFG nodes created so far (node ids 1..nnodes)
  edges,      \* CFG edges, a set of <<from, to>>
  errorlog,   \* vm.errorlog: the sequence of reported errors
  phase,      \* "init" before run_program, "running", "done" after it
  scen,       \* the analysed program and the VM options, fixed by Init
  f_globals,  \* the module's globals: name -> variable id (0: missing)
  values,     \* the fields of the abstract values that have some: the type
              \* parameters of a container, the elements of a tuple
  complexity, \* the complexity counter of the Program
  final,      \* what run_program returned: [node, ret]
  hist        \* what the step just taken completed: a call_function, a
              \* recursion cut, a load_attr or a binary operator

vars_all == <<frames, frame, nframes, vars, nnodes, edges, errorlog, phase,
              scen, f_globals, values, complexity, final, hist>>

----------------------------------------------------------------------------
(* Bounds of the model *)

\* bindings of a Variable the environment supplies (a global)
MaxBindings == 2

----------------------------------------------------------------------------
(* Abstract values.  A value is a string; FnCode maps an interpreted      *)
(* function to its code object.                                           *)

Unsolvable == "unsolvable"
NoneValue == "none"
Instances == {"inst_a", "inst_b", NoneValue}
Natives == {"native_a", "native_b"}
Methods == {"meth_inst_a", "meth_inst_b", "meth_none"}
Functions == {"fn_f", "fn_m1", "fn_m2", "fn_loop", "fn_leaf", "fn_names",
              "fn_names_set", "fn_bad", "fn_yield", "fn_break", "fn_continue",
              "fn_raise", "fn_raise0", "fn_raise2", "fn_reraise",
              "fn_unbound", "fn_bound"}
\* classes, modules, and the values the interpreter builds: the tuples,
\* lists and dicts are numbered in the order they are built
Classes == {"class_a"}
Modules == {"module_m"}
Tuples == <<"tuple_1">>
Lists == <<"list_1", "list_2">>
Dicts == <<"dict_1">>

\* the bound method a lookup finds on an instance
MethOf(d) ==
  CASE d = "inst_a" -> "meth_inst_a"
    [] d = "inst_b" -> "meth_inst_b"
    [] OTHER -> "meth_none"

\* what call results are made of
RetData == {"inst_a", "inst_b"}

----------------------------------------------------------------------------
(* The typegraph: CFG nodes, Variables, Bindings, Origins. *)

\* A binding is [data, origins]; an origin is [where, source_sets]; a source
\* set is a set of binding references <<v, i>> (binding i of variable v).

Successors(E, S) == {e[2] : e \in {d \in E : d[1] \in S}}

RECURSIVE ReachSet(_, _)
ReachSet(E, S) ==
  LET T == S \cup Successors(E, S)
  IN IF T = S THEN S ELSE ReachSet(E, T)

\* node b can be reached from node a
Reachable(E, a, b) == b \in ReachSet(E, {a})

\* Program.NewVariable: the new variable is Len(vs) + 1
NewVariable(vs) == Append(vs, <<>>)

\* n new variables
NewVariables(vs, n) == vs \o [k \in 1..n |-> <<>>]

FindData(bs, data) ==
  IF \E i \in 1..Len(bs) : bs[i].data = data
    THEN CHOOSE i \in 1..Len(bs) : bs[i].data = data
    ELSE 0

\* Binding.AddOrigin: one Origin per node, collecting the source sets
AddOrigin(b, where, ss) ==
  IF \E o \in b.origins : o.where = where
    THEN [b EXCEPT !.origins =
            {IF o.where = where
               THEN [o EXCEPT !.source_sets = @ \cup {ss}]
               ELSE o : o \in b.origins}]
    ELSE [b EXCEPT !.origins = @ \cup {[where |-> where, source_sets |-> {ss}]}]

\* Variable.AddBinding(data): the binding of that data, created if missing
AddData(bs, data) ==
  IF FindData(bs, data) = 0
    THEN Append(bs, [data |-> data, origins |-> {}])
    ELSE bs

\* Variable.AddBinding(data, source_set, where)
AddBinding(vs, v, data, ss, where) ==
  LET bs == AddData(vs[v], data)
      i == FindData(bs, data)
  IN [vs EXCEPT ![v] = [bs EXCEPT ![i] = AddOrigin(bs[i], where, ss)]]

\* Is binding ref visible at node n: n is reachable from the node of one of
\* its origins, and one source set of that origin is visible at n in full.
RECURSIVE Visible(_, _, _, _, _)
Visible(vs, E, ref, n, seen) ==
  /\ ref \notin seen
  /\ \E o \in vs[ref[1]][ref[2]].origins :
       /\ Reachable(E, o.where, n)
       /\ \E ss \in o.source_sets :
            \A r \in ss : Visible(vs, E, r, n, seen \cup {ref})

\* Variable.Bindings(node): the indices of the bindings visible at node
Bindings(vs, E, v, n) ==
  SelectSeq([i \in 1..Len(vs[v]) |-> i],
            LAMBDA i : Visible(vs, E, <<v, i>>, n, {}))

\* Variable.PasteVariable(variable, where): every binding of src is copied
\* into dst with an origin at where that names the copied binding
RECURSIVE PasteFrom(_, _, _, _, _)
PasteFrom(vs, dst, src, where, i) ==
  CHOOSE out \in
    {IF i > Len(w[src]) THEN w
     ELSE PasteFrom(AddBinding(w, dst, w[src][i].data, {<<src, i>>}, where),
                    dst, src, where, i + 1) : w \in {vs}} : TRUE

PasteVariable(vs, dst, src, where) == PasteFrom(vs, dst, src, where, 1)

\* Program.MergeVariables(node, name, variables): a list of one variable is
\* aliased; otherwise a new variable receives the bindings of all of them.
\* The result is [vars, v].
RECURSIVE PasteAll(_, _, _, _, _)
PasteAll(vs, dst, srcs, where, k) ==
  IF k > Len(srcs) THEN vs
  ELSE PasteAll(PasteVariable(vs, dst, srcs[k], where), dst, srcs, where, k + 1)

MergeVariables(vs, node, variables) ==
  IF Len(variables) = 1
    THEN [vars |-> vs, v |-> variables[1]]
    ELSE [vars |-> PasteAll(NewVariable(vs), Len(vs) + 1, variables, node, 1),
          v |-> Len(vs) + 1]

\* a faulty variant: the variables are always copied into a new one
join_variables_copy(vs, node, variables) ==
  [vars |-> PasteAll(NewVariable(vs), Len(vs) + 1, variables, node, 1),
   v |-> Len(vs) + 1]

\* VirtualMachine.join_variables
join_variables(vs, node, variables) == MergeVariables(vs, node, variables)

\* convert.create_new_unsolvable(node, name): a fresh variable holding the
\* give-up value, unconditionally, at node.  The result is [vars, v].
create_new_unsolvable(vs, node) ==
  [vars |-> AddBinding(NewVariable(vs), Len(vs) + 1, Unsolvable, {}, node),
   v |-> Len(vs) + 1]

\* the data of the bindings of v, as a set
DataOf(vs, v) == {vs[v][i].data : i \in 1..Len(vs[v])}

\* a faulty variant: the first of the nodes stands for all of them
join_cfg_nodes_first(nn, E, nodes) ==
  [nnodes |-> nn, edges |-> E, node |-> nodes[1]]

\* VirtualMachine.join_cfg_nodes: one node is returned as it is; several are
\* connected to a fresh node.  The result is [nnodes, edges, node].
join_cfg_nodes(nn, E, nodes) ==
  IF Len(nodes) = 1
    THEN [nnodes |-> nn, edges |-> E, node |-> nodes[1]]
    ELSE [nnodes |-> nn + 1,
          edges |-> E \cup {<<nodes[k], nn + 1>> : k \in 1..Len(nodes)},
          node |-> nn + 1]

----------------------------------------------------------------------------
(* The complexity governor of the Program (pytd/cfg.py).  Connecting a    *)
(* node costs its branching factor, the number of successors it has once  *)
(* connected; with abort_on_complex set, a connection asked for while the *)
(* counter is over the ceiling raises ProgramTooComplexError.             *)

\* the ceiling of the counter
MaxComplexity == 7

\* the cost of connecting the edges of new, one after the other, onto E
RECURSIVE ConnectCost(_, _)
ConnectCost(E, new) ==
  IF new = {} THEN 0
  ELSE CHOOSE sum \in
         {Cardinality({d \in E : d[1] = e[1]}) + 1
            + ConnectCost(E \cup {e}, new \ {e}) :
          e \in {CHOOSE x \in new : TRUE}} : TRUE

\* a faulty variant: the governor never trips
TrippedNever == FALSE

\* the governor is over its ceiling
Tripped == scen.abort_on_complex /\ complexity > MaxComplexity

\* the step connects E to E2: it cannot with the governor tripped, and the
\* counter grows by the cost
Connected(E, E2) ==
  /\ E2 # E => ~Tripped
  /\ complexity' = complexity + ConnectCost(E, E2 \ E)

----------------------------------------------------------------------------
(* Code objects.  An opcode is [name, arg, target]; a code object is its  *)
(* opcodes (an opcode's offset is its index) and `order`, its blocks in   *)
(* program order, each <<first offset, last offset>>.                     *)

Op(n, a, t) == [name |-> n, arg |-> a, target |-> t]

\* l or r and l and r: the opcode that tests l keeps it for the target and
\* pops it before r
ShortCircuit(opname) ==
  [ops |-> <<Op("LOAD_GLOBAL", "l", 0),
             Op(opname, "", 4),
             Op("LOAD_GLOBAL", "r", 0),
             Op("RETURN_VALUE", "", 0)>>,
   order |-> << <<1, 2>>, <<3, 3>>, <<4, 4>> >>]

\* the same before Python 2.7: the opcode that tests l keeps it, and it is
\* popped by an opcode of its own
ShortCircuitOld(opname) ==
  [ops |-> <<Op("LOAD_GLOBAL", "l", 0),
             Op(opname, "", 5),
             Op("POP_TOP", "", 0),
             Op("LOAD_GLOBAL", "r", 0),
             Op("RETURN_VALUE", "", 0)>>,
   order |-> << <<1, 2>>, <<3, 4>>, <<5, 5>> >>]

\* a conditional expression on l: the opcode that tests l pops it
Conditional(opname) ==
  [ops |-> <<Op("LOAD_GLOBAL", "l", 0),
             Op(opname, "", 5),
             Op("LOAD_GLOBAL", "l", 0),
             Op("JUMP_ABSOLUTE", "", 6),
             Op("LOAD_GLOBAL", "r", 0),
             Op("RETURN_VALUE", "", 0)>>,
   order |-> << <<1, 2>>, <<3, 4>>, <<5, 5>>, <<6, 6>> >>]

\* a body that stops on one of its two paths: if c: l <opname>; return r.
\* The opcode behind opname is dead code; it is a block of its own when
\* opname ends its block whatever the state.
Stops(opname, arg) ==
  [ops |-> <<Op("LOAD_GLOBAL", "c", 0),
             Op("POP_JUMP_IF_FALSE", "", 6),
             Op("LOAD_GLOBAL", "l", 0),
             Op(opname, arg, 0),
             Op("POP_TOP", "", 0),
             Op("LOAD_GLOBAL", "r", 0),
             Op("RETURN_VALUE", "", 0)>>,
   order |-> IF opname = "YIELD_VALUE"
               THEN << <<1, 2>>, <<3, 5>>, <<6, 7>> >>
               ELSE << <<1, 2>>, <<3, 4>>, <<5, 5>>, <<6, 7>> >>]

\* the in-place opcodes (lines 1028-1065)
InplaceOpcodes ==
  {"INPLACE_ADD", "INPLACE_SUBTRACT", "INPLACE_MULTIPLY", "INPLACE_DIVIDE",
   "INPLACE_MODULO", "INPLACE_POWER", "INPLACE_LSHIFT", "INPLACE_RSHIFT",
   "INPLACE_AND", "INPLACE_XOR", "INPLACE_OR", "INPLACE_FLOOR_DIVIDE",
   "INPLACE_TRUE_DIVIDE"}

\* the modules that are l <op>= r, one for each in-place opcode
InplacePrograms == {"main_" \o o : o \in InplaceOpcodes}

\* l <op>= r
Inplace(opname) ==
  [ops |-> <<Op("LOAD_GLOBAL", "l", 0),
             Op("LOAD_GLOBAL", "r", 0),
             Op(opname, "", 0),
             Op("RETURN_VALUE", "", 0)>>,
   order |-> << <<1, 4>> >>]

\* the code objects of the analysed programs
Code(c) ==
  CASE c = "main_call" ->                       \* g()
         [ops |-> <<Op("LOAD_GLOBAL", "g", 0),
                    Op("CALL_FUNCTION", "", 0),
                    Op("RETURN_VALUE", "", 0)>>,
          order |-> << <<1, 3>> >>]
    [] c \in InplacePrograms -> Inplace(SubSeq(c, 6, Len(c)))
    [] c = "main_attr" ->                       \* x.a
         [ops |-> <<Op("LOAD_GLOBAL", "x", 0),
                    Op("LOAD_ATTR", "a", 0),
                    Op("RETURN_VALUE", "", 0)>>,
          order |-> << <<1, 3>> >>]
    [] c = "main_add" ->                        \* l + r
         [ops |-> <<Op("LOAD_GLOBAL", "l", 0),
                    Op("LOAD_GLOBAL", "r", 0),
                    Op("BINARY_ADD", "", 0),
                    Op("RETURN_VALUE", "", 0)>>,
          order |-> << <<1, 4>> >>]
    [] c = "main_setattr" ->                    \* x.a = r
         [ops |-> <<Op("LOAD_GLOBAL", "r", 0),
                    Op("LOAD_GLOBAL", "x", 0),
                    Op("STORE_ATTR", "a", 0),
                    Op("LOAD_GLOBAL", "r", 0),
                    Op("RETURN_VALUE", "", 0)>>,
          order |-> << <<1, 5>> >>]
    [] c = "main_setattr_sum" ->                \* (l + r).a = r
         [ops |-> <<Op("LOAD_GLOBAL", "r", 0),
                    Op("LOAD_GLOBAL", "l", 0),
                    Op("LOAD_GLOBAL", "r", 0),
                    Op("BINARY_ADD", "", 0),
                    Op("STORE_ATTR", "a", 0),
                    Op("LOAD_GLOBAL", "r", 0),
                    Op("RETURN_VALUE", "", 0)>>,
          order |-> << <<1, 7>> >>]
    [] c = "main_subscr" ->                     \* l[r]
         [ops |-> <<Op("LOAD_GLOBAL", "l", 0),
                    Op("LOAD_GLOBAL", "r", 0),
                    Op("BINARY_SUBSCR", "", 0),
                    Op("RETURN_VALUE", "", 0)>>,
          order |-> << <<1, 4>> >>]
    [] c = "f" ->                               \* def f(): return f()
         [ops |-> <<Op("LOAD_GLOBAL", "f", 0),
                    Op("CALL_FUNCTION", "", 0),
                    Op("RETURN_VALUE", "", 0)>>,
          order |-> << <<1, 3>> >>]
    [] c = "m1" ->                              \* def m1(): return m2()
         [ops |-> <<Op("LOAD_GLOBAL", "m2", 0),
                    Op("CALL_FUNCTION", "", 0),
                    Op("RETURN_VALUE", "", 0)>>,
          order |-> << <<1, 3>> >>]
    [] c = "m2" ->                              \* def m2(): m1(); return leaf()
         [ops |-> <<Op("LOAD_GLOBAL", "m1", 0),
                    Op("CALL_FUNCTION", "", 0),
                    Op("POP_TOP", "", 0),
                    Op("LOAD_GLOBAL", "leaf", 0),
                    Op("CALL_FUNCTION", "", 0),
                    Op("RETURN_VALUE", "", 0)>>,
          order |-> << <<1, 6>> >>]
    [] c = "loop" ->                            \* def loop():
         [ops |-> <<Op("LOAD_GLOBAL", "c", 0),  \*   while c: leaf()
                    Op("POP_JUMP_IF_FALSE", "", 7),   \*   return c
                    Op("LOAD_GLOBAL", "leaf", 0),
                    Op("CALL_FUNCTION", "", 0),
                    Op("POP_TOP", "", 0),
                    Op("JUMP_ABSOLUTE", "", 1),
                    Op("LOAD_GLOBAL", "c", 0),
                    Op("RETURN_VALUE", "", 0)>>,
          order |-> << <<1, 2>>, <<3, 6>>, <<7, 8>> >>]
    [] c = "main_names" ->                      \* n; g()
         [ops |-> <<Op("LOAD_NAME", "n", 0),
                    Op("POP_TOP", "", 0),
                    Op("LOAD_GLOBAL", "g", 0),
                    Op("CALL_FUNCTION", "", 0),
                    Op("RETURN_VALUE", "", 0)>>,
          order |-> << <<1, 5>> >>]
    [] c = "names" ->                           \* a body with its own
         [ops |-> <<Op("LOAD_NAME", "n", 0),    \* locals: n; return n
                    Op("POP_TOP", "", 0),       \* (n as a global)
                    Op("LOAD_GLOBAL", "n", 0),
                    Op("RETURN_VALUE", "", 0)>>,
          order |-> << <<1, 4>> >>]
    [] c = "names_set" ->                       \* a body with its own
         [ops |-> <<Op("LOAD_GLOBAL", "c", 0),  \* locals: n = c; n;
                    Op("STORE_NAME", "n", 0),   \* return n (n as a global)
                    Op("LOAD_NAME", "n", 0),
                    Op("POP_TOP", "", 0),
                    Op("LOAD_GLOBAL", "n", 0),
                    Op("RETURN_VALUE", "", 0)>>,
          order |-> << <<1, 6>> >>]
    [] c = "main_import" ->                     \* from m import a
         [ops |-> <<Op("LOAD_CONST", "level", 0),
                    Op("LOAD_CONST", "fromlist", 0),
                    Op("IMPORT_NAME", "m", 0),
                    Op("IMPORT_FROM", "a", 0),
                    Op("STORE_NAME", "a", 0),
                    Op("RETURN_VALUE", "", 0)>>,
          order |-> << <<1, 6>> >>]
    [] c = "main_class" ->                      \* class C(b): pass
         [ops |-> <<Op("LOAD_CONST", "C", 0),
                    Op("LOAD_GLOBAL", "b", 0),
                    Op("BUILD_TUPLE", 1, 0),
                    Op("BUILD_MAP", 0, 0),
                    Op("BUILD_CLASS", "", 0),
                    Op("RETURN_VALUE", "", 0)>>,
          order |-> << <<1, 6>> >>]
    [] c = "main_branch" ->                     \* if c: v = [1]
         [ops |-> <<Op("LOAD_GLOBAL", "c", 0),  \* else: v = [""]
                    Op("POP_JUMP_IF_FALSE", "", 7),     \* v
                    Op("LOAD_CONST", "int", 0),
                    Op("BUILD_LIST", 1, 0),
                    Op("STORE_NAME", "v", 0),
                    Op("JUMP_ABSOLUTE", "", 11),
                    Op("LOAD_CONST", "str", 0),
                    Op("BUILD_LIST", 1, 0),
                    Op("STORE_NAME", "v", 0),
                    Op("JUMP_ABSOLUTE", "", 11),
                    Op("LOAD_NAME", "v", 0),
                    Op("RETURN_VALUE", "", 0)>>,
          order |-> << <<1, 2>>, <<3, 6>>, <<7, 10>>, <<11, 12>> >>]
    [] c = "main_dict" ->                       \* d = {}
         [ops |-> <<Op("BUILD_MAP", 0, 0),      \* if d: pass
                    Op("STORE_NAME", "d", 0),   \* if c: d[k] = l
                    Op("LOAD_NAME", "d", 0),    \* else: d[k] = r
                    Op("POP_JUMP_IF_FALSE", "", 5),     \* if d: pass
                    Op("LOAD_GLOBAL", "c", 0),  \* d
                    Op("POP_JUMP_IF_FALSE", "", 12),
                    Op("LOAD_GLOBAL", "l", 0),
                    Op("LOAD_NAME", "d", 0),
                    Op("LOAD_CONST", "k", 0),
                    Op("STORE_SUBSCR", "", 0),
                    Op("JUMP_ABSOLUTE", "", 16),
                    Op("LOAD_GLOBAL", "r", 0),
                    Op("LOAD_NAME", "d", 0),
                    Op("LOAD_CONST", "k", 0),
                    Op("STORE_SUBSCR", "", 0),
                    Op("LOAD_NAME", "d", 0),
                    Op("POP_JUMP_IF_FALSE", "", 18),
                    Op("LOAD_NAME", "d", 0),
                    Op("RETURN_VALUE", "", 0)>>,
          order |-> << <<1, 4>>, <<5, 6>>, <<7, 11>>, <<12, 15>>, <<16, 17>>,
                       <<18, 19>> >>]
    [] c = "main_twice" ->                      \* g(); g()
         [ops |-> <<Op("LOAD_GLOBAL", "g", 0),
                    Op("CALL_FUNCTION", "", 0),
                    Op("POP_TOP", "", 0),
                    Op("LOAD_GLOBAL", "g", 0),
                    Op("CALL_FUNCTION", "", 0),
                    Op("RETURN_VALUE", "", 0)>>,
          order |-> << <<1, 6>> >>]
    [] c = "main_cell" ->                       \* a cell x: x = l; x = r; x
         [ops |-> <<Op("LOAD_GLOBAL", "l", 0),
                    Op("STORE_DEREF", 1, 0),
                    Op("LOAD_GLOBAL", "r", 0),
                    Op("STORE_DEREF", 1, 0),
                    Op("LOAD_DEREF", 1, 0),
                    Op("RETURN_VALUE", "", 0)>>,
          order |-> << <<1, 6>> >>]
    [] c = "main_or" -> ShortCircuit("JUMP_IF_TRUE_OR_POP")       \* l or r
    [] c = "main_and" -> ShortCircuit("JUMP_IF_FALSE_OR_POP")     \* l and r
    [] c = "main_or_old" -> ShortCircuitOld("JUMP_IF_TRUE")
    [] c = "main_and_old" -> ShortCircuitOld("JUMP_IF_FALSE")
    [] c = "main_cond" -> Conditional("POP_JUMP_IF_FALSE")   \* l if l else r
    [] c = "main_unless" -> Conditional("POP_JUMP_IF_TRUE")  \* l if not l
    [] c = "yield" -> Stops("YIELD_VALUE", "")
    [] c = "break" -> Stops("BREAK_LOOP", "")
    [] c = "continue" -> Stops("CONTINUE_LOOP", "")
    [] c = "raise" -> Stops("RAISE_VARARGS", 1)
    [] c = "raise0" -> Stops("RAISE_VARARGS", 0)
    [] c = "raise2" ->                          \* raise c, l
         [ops |-> <<Op("LOAD_GLOBAL", "c", 0),
                    Op("LOAD_GLOBAL", "l", 0),
                    Op("RAISE_VARARGS", 2, 0)>>,
          order |-> << <<1, 3>> >>]
    [] c = "reraise" ->                         \* raise c, l, r
         [ops |-> <<Op("LOAD_GLOBAL", "c", 0),
                    Op("LOAD_GLOBAL", "l", 0),
                    Op("LOAD_GLOBAL", "r", 0),
                    Op("RAISE_VARARGS", 3, 0)>>,
          order |-> << <<1, 4>> >>]
    [] c = "unbound" ->                         \* n; return c, n a local
         [ops |-> <<Op("LOAD_FAST", "n", 0),    \* never assigned
                    Op("POP_TOP", "", 0),
                    Op("LOAD_GLOBAL", "c", 0),
                    Op("RETURN_VALUE", "", 0)>>,
          order |-> << <<1, 4>> >>]
    [] c = "bound" ->                           \* n = c; return n, n a
         [ops |-> <<Op("LOAD_GLOBAL", "c", 0),  \* local
                    Op("STORE_NAME", "n", 0),
                    Op("LOAD_FAST", "n", 0),
                    Op("RETURN_VALUE", "", 0)>>,
          order |-> << <<1, 4>> >>]
    [] c = "bad" ->                             \* def bad(): return x.a
         [ops |-> <<Op("LOAD_GLOBAL", "x", 0),
                    Op("LOAD_ATTR", "a", 0),
                    Op("RETURN_VALUE", "", 0)>>,
          order |-> << <<1, 3>> >>]
    [] OTHER ->                                 \* def leaf(): return c
         [ops |-> <<Op("LOAD_GLOBAL", "c", 0),
                    Op("RETURN_VALUE", "", 0)>>,
          order |-> << <<1, 2>> >>]

\* the code object of an interpreted function
FnCode(d) ==
  CASE d = "fn_f" -> "f"
    [] d = "fn_m1" -> "m1"
    [] d = "fn_m2" -> "m2"
    [] d = "fn_loop" -> "loop"
    [] d = "fn_names" -> "names"
    [] d = "fn_names_set" -> "names_set"
    [] d = "fn_bad" -> "bad"
    [] d = "fn_yield" -> "yield"
    [] d = "fn_break" -> "break"
    [] d = "fn_continue" -> "continue"
    [] d = "fn_raise" -> "raise"
    [] d = "fn_raise0" -> "raise0"
    [] d = "fn_raise2" -> "raise2"
    [] d = "fn_reraise" -> "reraise"
    [] d = "fn_unbound" -> "unbound"
    [] d = "fn_bound" -> "bound"
    [] OTHER -> "leaf"

\* the names the modules use
GlobalNames == {"g", "x", "l", "r", "c", "f", "m1", "m2", "loop", "leaf",
                "n", "b"}

\* the names the programs store to
StoredNames == {"n", "a", "v", "d"}

\* the modules analysed
Programs == {"main_call", "main_attr", "main_add", "main_subscr",
             "main_names", "main_import", "main_class", "main_branch",
             "main_dict", "main_twice", "main_cell", "main_or", "main_and",
             "main_or_old", "main_and_old", "main_cond", "main_unless"}
            \cup InplacePrograms \cup {"main_setattr", "main_setattr_sum"}

\* the number of cell variables of a code object (co_cellvars)
co_cellvars(code) == IF code = "main_cell" THEN 1 ELSE 0

\* the code object is that of a generator
is_generator(code) ==
  \E k \in 1..Len(Code(code).ops) : Code(code).ops[k].name = "YIELD_VALUE"

\* the Variables made with a frame: its return variable, its cells, and the
\* yield variable (left out for code that never yields: nothing refers to
\* it)
frame_variables(code) ==
  1 + co_cellvars(code) + (IF is_generator(code) THEN 1 ELSE 0)

\* Opcode.carry_on_to_next()
carry_on_to_next(op) ==
  op.name \notin {"RETURN_VALUE", "JUMP_ABSOLUTE", "JUMP_FORWARD",
                  "RAISE_VARARGS", "BREAK_LOOP", "CONTINUE_LOOP"}

----------------------------------------------------------------------------
(* FrameState (pytype/state.py) *)

NoState == [live |-> FALSE, node |-> 0, data_stack |-> <<>>, why |-> "none"]

\* FrameState.init(node)
InitState(node) ==
  [live |-> TRUE, node |-> node, data_stack |-> <<>>, why |-> "none"]

set_why(st, why) == [st EXCEPT !.why = why]
change_cfg_node(st, node) == [st EXCEPT !.node = node]
push(st, v) == [st EXCEPT !.data_stack = Append(@, v)]
top(st) == st.data_stack[Len(st.data_stack)]
pop_and_discard(st) ==
  [st EXCEPT !.data_stack = SubSeq(@, 1, Len(@) - 1)]
\* the n topmost values, the deepest first
topn(st, n) ==
  SubSeq(st.data_stack, Len(st.data_stack) - n + 1, Len(st.data_stack))
popn_state(st, n) ==
  [st EXCEPT !.data_stack = SubSeq(@, 1, Len(@) - n)]

----------------------------------------------------------------------------
(* What the abstract values answer (pytype/abstract.py).                   *)

\* the results a successful native call may return
RetChoices == {<<>>, <<"inst_a">>, <<"inst_b">>}

CallFails == [ok |-> FALSE, fresh |-> FALSE, data |-> <<>>]

\* the answers call() may give: FailedFunctionCall, or (new_node, result),
\* new_node being the node of the call or a fresh successor of it
CallOutcomes ==
  {CallFails} \cup
  {[ok |-> TRUE, fresh |-> f, data |-> d] : f \in BOOLEAN, d \in RetChoices}

\* a faulty variant: the give-up value answers a call as any value may
OutcomesForAnyValue(d) == IF d \in Instances THEN {CallFails} ELSE CallOutcomes

\* the answers of a value of data d: the give-up value answers with itself,
\* an instance is not callable, a native function or method decides
OutcomesFor(d) ==
  CASE d = Unsolvable ->
         {[ok |-> TRUE, fresh |-> FALSE, data |-> <<Unsolvable>>]}
    [] d \in Instances -> {CallFails}
    [] OTHER -> CallOutcomes

\* a new variable holding data[1..], unconditionally, at node
RECURSIVE AddAll(_, _, _, _, _)
AddAll(vs, v, data, where, k) ==
  IF k > Len(data) THEN vs
  ELSE AddAll(AddBinding(vs, v, data[k], {}, where), v, data, where, k + 1)

\* the (new_node, result) of a successful call with answer out, in heap h
value_call(h, node, out) ==
  LET nn == IF out.fresh THEN h.nnodes + 1 ELSE h.nnodes
      new_node == IF out.fresh THEN h.nnodes + 1 ELSE node
      E == IF out.fresh THEN h.edges \cup {<<node, new_node>>} ELSE h.edges
      v == Len(h.vars) + 1
  IN [h |-> [h EXCEPT !.nnodes = nn, !.edges = E,
                      !.vars = AddAll(NewVariable(h.vars), v, out.data,
                                      new_node, 1)],
      node |-> new_node, v |-> v]

----------------------------------------------------------------------------
(* VirtualMachine.call_function.  h is the heap [vars, nnodes, edges,     *)
(* errorlog, f_globals, values]; the loop's locals are kept in a record   *)
(* c.                                                                     *)

Heap == [vars |-> vars, nnodes |-> nnodes, edges |-> edges,
         errorlog |-> errorlog, f_globals |-> f_globals, values |-> values]

NoCall == [active |-> FALSE, funcu |-> 0, node |-> 0, fallback |-> FALSE,
           opcode |-> <<"", 0>>, i |-> 0, result |-> 0, nodes |-> <<>>,
           error |-> 0, e |-> 0, res |-> <<>>]

\* lines 645-648: the locals before the loop; result is a new variable
call_function_init(h, node, funcu, fallback, opcode) ==
  [h |-> [h EXCEPT !.vars = NewVariable(h.vars)],
   c |-> [active |-> TRUE, funcu |-> funcu, node |-> node,
          fallback |-> fallback, opcode |-> opcode, i |-> 1,
          result |-> Len(h.vars) + 1, nodes |-> <<>>, error |-> 0, e |-> 0,
          res |-> <<>>]]

\* a faulty variant: the copy is what PasteVariable would make, without the
\* callable as a source
ResultSourceSetPasted(binding, funcv) == {binding}

\* the source set of a copied result binding (line 662)
ResultSourceSet(binding, funcv) == {binding, funcv}

\* lines 660-662: every binding of one_result is copied into result
RECURSIVE CopyResult(_, _, _, _, _, _)
CopyResult(vs, result, one_result, funcv, new_node, k) ==
  IF k > Len(vs[one_result]) THEN vs
  ELSE CopyResult(
         AddBinding(vs, result, vs[one_result][k].data,
                    ResultSourceSet(<<one_result, k>>, funcv), new_node),
         result, one_result, funcv, new_node, k + 1)

\* lines 656-663: candidate c.i returned r = [h, node, v], that is
\* (new_node, one_result) in the heap its call left
call_ok(c, r) ==
  [h |-> [r.h EXCEPT !.vars = CopyResult(@, c.result, r.v, <<c.funcu, c.i>>,
                                         r.node, 1)],
   c |-> [c EXCEPT !.nodes = Append(@, r.node), !.i = @ + 1,
                   !.res = Append(@, [ok |-> TRUE, node |-> r.node,
                                      v |-> r.v,
                                      data |-> DataOf(r.h.vars, r.v)])]]

\* the error cause kept when candidate i fails (line 655)
FirstError(error, i) == IF error = 0 THEN i ELSE error

\* lines 654-655: candidate c.i raised FailedFunctionCall; the exception is
\* named by the index of the candidate.  `e` stays bound after the handler.
call_failed(h, c) ==
  [h |-> h,
   c |-> [c EXCEPT !.error = FirstError(@, c.i), !.e = c.i, !.i = @ + 1,
                   !.res = Append(@, [ok |-> FALSE, node |-> 0, v |-> 0,
                                      data |-> {}])]]

\* a faulty variant: the failure is reported whether or not the caller asked
\* for the fallback
ReportsFailedCallUnasked(nodes, fallback) == nodes = <<>>

\* line 664, 667: is the failure reported
ReportsFailedCall(nodes, fallback) == nodes = <<>> /\ fallback

\* line 669: the failure handed to errorlog.invalid_function_call
ReportedFailure(c) == c.e

\* lines 664-674: what call_function returns, [h, node, ret, reported]
call_function_return(h, c) ==
  IF c.nodes # <<>>
    THEN LET j == join_cfg_nodes(h.nnodes, h.edges, c.nodes)
         IN [h |-> [h EXCEPT !.nnodes = j.nnodes, !.edges = j.edges],
             node |-> j.node, ret |-> c.result, reported |-> 0]
  ELSE IF ReportsFailedCall(c.nodes, c.fallback)
    THEN LET u == create_new_unsolvable(h.vars, c.node)
         IN [h |-> [h EXCEPT
                      !.errorlog = Append(@, [kind |-> "invalid_function_call",
                                              opcode |-> c.opcode,
                                              name |-> "",
                                              cause |-> ReportedFailure(c)]),
                      !.vars = u.vars],
             node |-> c.node, ret |-> u.v, reported |-> 1]
  ELSE [h |-> h, node |-> c.node, ret |-> c.result, reported |-> 0]

\* the loop over funcu.bindings with the candidates' answers given: outs[i]
\* is the answer of candidate i (none of them an interpreted function); s is
\* [h, c]
RECURSIVE call_loop(_, _)
call_loop(s, outs) ==
  IF s.c.i > Len(s.h.vars[s.c.funcu]) THEN s
  ELSE IF outs[s.c.i].ok
    THEN call_loop(call_ok(s.c, value_call(s.h, s.c.node, outs[s.c.i])), outs)
    ELSE call_loop(call_failed(s.h, s.c), outs)

\* the errors reported since the error log was `before`
Added(before, after) == SubSeq(after, Len(before) + 1, Len(after))

\* the record of a completed call_function, kept in hist: l = [h, c] is the
\* heap and the locals behind the loop, r what was returned; errors are the
\* errors reported behind the loop, bindings what the returned Variable held
CallRecord(l, r, nb) ==
  [n |-> 1, funcu |-> l.c.funcu, node |-> l.c.node,
   fallback |-> l.c.fallback, nb |-> nb, res |-> l.c.res,
   error |-> l.c.error, reported |-> r.reported,
   errors |-> Added(l.h.errorlog, r.h.errorlog),
   ret |-> r.ret, retnode |-> r.node, bindings |-> r.h.vars[r.ret],
   result |-> l.c.result]

\* call_function behind its loop, l = [h, c]: [h, node, ret, rec]
call_function_result(l, nb) ==
  LET r == call_function_return(l.h, l.c)
  IN [h |-> r.h, node |-> r.node, ret |-> r.ret,
      rec |-> CallRecord(l, r, nb)]

\* call_function(node, funcu, args, fallback_to_unsolvable) with the
\* candidates' answers given: [h, node, ret, rec]
call_function(h, node, funcu, fallback, opcode, outs) ==
  call_function_result(
    call_loop(call_function_init(h, node, funcu, fallback, opcode), outs),
    Len(h.vars[funcu]))

\* the answers the candidates of a method may give, a = [h, st, result] being
\* what its lookup returned; none when nothing was found
OutsFor(a) ==
  IF a.result = 0 THEN {<<>>}
  ELSE {o \in [1..Len(a.h.vars[a.result]) ->
                  CallOutcomes \cup OutcomesFor(Unsolvable)] :
          \A i \in 1..Len(a.h.vars[a.result]) :
            o[i] \in OutcomesFor(a.h.vars[a.result][i].data)}

----------------------------------------------------------------------------
(* Frames and the call stack *)

\* a Frame (pytype/state.py) with run_frame's and the running opcode's
\* locals: blk is the index in `order` of the block the loop is at, mode is
\* "pick" at the head of the block loop, "ops" inside the opcode loop and
\* "end" behind it; opi is the offset of the opcode to run (in "end": of the
\* opcode last run); pre is the state before the running opcode, post the
\* state of its handler, call the locals of its call_function; ran lists
\* the blocks whose opcodes were run, in the order they were entered.
\* f_locals are the frame's own locals if it has new_locals; the locals of
\* a frame without are the globals (make_frame, lines 433-450).  The cells
\* of the frame are Variables made with it, behind its return variable.
NewFrame(id, code, node, return_variable) ==
  [id |-> id, f_code |-> code, node |-> node, ran |-> <<>>, f_back |-> 0,
   new_locals |-> FALSE, f_locals |-> [n \in StoredNames |-> 0],
   cells |-> [k \in 1..co_cellvars(code) |-> return_variable + k],
   yield_variable |-> return_variable + co_cellvars(code) + 1,
   states |-> [o \in 1..Len(Code(code).ops) |-> NoState],
   return_variable |-> return_variable, return_nodes |-> <<>>,
   blk |-> 1, mode |-> "pick", opi |-> 0, state |-> NoState,
   pre |-> NoState, post |-> NoState, call |-> NoCall]

Top == frames[Len(frames)]

\* a faulty variant: only the frame that makes the call is looked at
IsRecursionOfCaller(fs, code) == fs # <<>> /\ fs[Len(fs)].f_code = code

\* make_frame, line 424: is the code object on the call stack already
IsRecursion(fs, code) == \E k \in 1..Len(fs) : fs[k].f_code = code

\* run_frame, lines 174-175, after make_frame built the frame: the frame is
\* pushed and the state of its first opcode is set
StartFrame(fs, id, code, node, return_variable) ==
  Append(fs, [NewFrame(id, code, node, return_variable)
                EXCEPT !.states[1] = InitState(node),
                       !.new_locals = fs # <<>>])

\* resume_frame, lines 477-482, up to the first opcode: the frame is linked
\* to the current one and run_frame begins, without a look at the call stack
resume_frame(fs, id, code, node, return_variable) ==
  LET run == StartFrame(fs, id, code, node, return_variable)
  IN [run EXCEPT ![Len(run)].f_back = IF fs = <<>> THEN 0
                                      ELSE fs[Len(fs)].id]

\* a faulty variant: the frame popped stays the current one
pop_frame_current_kept(fs) ==
  [frames |-> SubSeq(fs, 1, Len(fs) - 1), frame |-> fs[Len(fs)].id]

\* pop_frame, lines 224-230: [frames, frame]
pop_frame(fs) ==
  LET rest == SubSeq(fs, 1, Len(fs) - 1)
  IN [frames |-> rest,
      frame |-> IF rest # <<>> THEN rest[Len(rest)].id ELSE 0]

\* a faulty variant: a frame without exit nodes returns no node
run_frame_result_none(nn, E, fr) ==
  IF fr.return_nodes = <<>>
    THEN [nnodes |-> nn, edges |-> E, node |-> 0]
    ELSE join_cfg_nodes(nn, E, fr.return_nodes)

\* run_frame, lines 195-200: [nnodes, edges, node]
run_frame_result(nn, E, fr) ==
  IF fr.return_nodes = <<>>
    THEN [nnodes |-> nn, edges |-> E, node |-> fr.node]
    ELSE join_cfg_nodes(nn, E, fr.return_nodes)

\* FrameState.merge_into(other): the first state of an offset is kept as it
\* is; a later one is merged into it slot by slot, with an edge to its node
RECURSIVE MergeStacks(_, _, _, _, _, _)
MergeStacks(vs, node, mine, theirs, k, acc) ==
  IF k > Len(mine) THEN [vars |-> vs, stack |-> acc]
  ELSE IF mine[k] = theirs[k]
    THEN MergeStacks(vs, node, mine, theirs, k + 1, Append(acc, mine[k]))
    ELSE LET m == MergeVariables(vs, node, <<theirs[k], mine[k]>>)
         IN MergeStacks(m.vars, node, mine, theirs, k + 1, Append(acc, m.v))

merge_into(h, st, other) ==
  IF ~other.live THEN [h |-> h, st |-> st]
  ELSE LET m == MergeStacks(h.vars, other.node, st.data_stack,
                            other.data_stack, 1, <<>>)
       IN [h |-> [h EXCEPT !.vars = m.vars,
                           !.edges = IF st.node = other.node THEN @
                                     ELSE @ \cup {<<st.node, other.node>>}],
           st |-> [other EXCEPT !.data_stack = m.stack]]

\* FrameState.forward_cfg_node(): the state moves to a fresh successor node
forward_cfg_node(h, st) ==
  [h |-> [h EXCEPT !.nnodes = @ + 1,
                   !.edges = @ \cup {<<st.node, h.nnodes + 1>>}],
   st |-> [st EXCEPT !.node = h.nnodes + 1]]

\* a faulty variant: the state that jumps replaces the one the target has
store_jump_overwrite(h, states, target, st) ==
  [h |-> h, states |-> [states EXCEPT ![target] = st]]

\* store_jump, line 1477: [h, states]
store_jump(h, states, target, st) ==
  LET m == merge_into(h, st, states[target])
  IN [h |-> m.h, states |-> [states EXCEPT ![target] = m.st]]

----------------------------------------------------------------------------
(* The initial state: the VM as constructed, and the globals its program  *)
(* finds.                                                                 *)

RootNode == 1
\* a node of another branch: what is bound there is not visible on the
\* branch the program runs on
OtherNode == 2

\* the sequences of 1..n distinct members of S
RECURSIVE SeqsUpTo(_, _)
SeqsUpTo(S, n) ==
  IF n = 0 THEN {<<>>}
  ELSE LET shorter == SeqsUpTo(S, n - 1)
       IN shorter \cup
          {Append(q, x) : q \in {t \in shorter : Len(t) = n - 1},
                          x \in S} 

Distinct(q) == \A i, j \in 1..Len(q) : i # j => q[i].data # q[j].data

\* the contents of a global: 1..MaxBindings bindings of distinct data from
\* D, each bound where the program sees it (vis) or on another branch
Contents(D, V) ==
  {q \in SeqsUpTo([data : D, vis : V], MaxBindings) : q # <<>> /\ Distinct(q)}

Seen(d) == <<[data |-> d, vis |-> TRUE]>>

CallData == {"native_a", "native_b", Unsolvable, "inst_a",
             "fn_f", "fn_m1", "fn_loop"}
ObjData == {"inst_a", "inst_b", NoneValue, Unsolvable}
LeftData == {"inst_a", NoneValue, Unsolvable}
\* the left operand's bindings come in this order
LeftOrder == <<"inst_a", NoneValue, Unsolvable>>
Ordered(q) ==
  \A i, j \in 1..Len(q) :
    i < j => \E a, b \in 1..Len(LeftOrder) :
               a < b /\ LeftOrder[a] = q[i].data /\ LeftOrder[b] = q[j].data
RightData == {"inst_b", Unsolvable}
BaseData == {"class_a", "inst_a", Unsolvable}

Default == [prog |-> "main_call", python_version |-> 2,
            reverse_operators |-> FALSE,
            abort_on_complex |-> FALSE, n_global |-> TRUE,
            n_builtin |-> TRUE, b |-> Seen("class_a"),
            g |-> Seen("native_a"), x |-> Seen("inst_a"),
            l |-> Seen("inst_a"), r |-> Seen("inst_b")]

\* the programs with the globals and options that matter to each
Scenarios ==
  {[Default EXCEPT !.g = q] : q \in Contents(CallData, {TRUE})}
  \cup {[Default EXCEPT !.prog = "main_attr", !.x = q,
                        !.abort_on_complex = a] :
          q \in Contents(ObjData, BOOLEAN), a \in BOOLEAN}
  \cup {[Default EXCEPT !.prog = p, !.reverse_operators = ro,
                        !.l = q, !.r = Seen(d)] :
          p \in {"main_add", "main_subscr"}, ro \in BOOLEAN,
          q \in {c \in Contents(LeftData, {TRUE}) : Ordered(c)},
          d \in RightData}
  \cup {[Default EXCEPT !.prog = "main_names", !.g = Seen(fn),
                        !.n_global = ng, !.n_builtin = nb] :
          fn \in {"fn_names", "fn_names_set"}, ng \in BOOLEAN,
          nb \in BOOLEAN}
  \cup {[Default EXCEPT !.prog = p] :
          p \in {"main_import", "main_branch", "main_dict", "main_cell"}}
  \cup {[Default EXCEPT !.prog = "main_class", !.b = q] :
          q \in Contents(BaseData, {TRUE})}
  \cup {[Default EXCEPT !.prog = p, !.l = q] :
          p \in {"main_or", "main_and", "main_or_old", "main_and_old",
                 "main_cond", "main_unless"},
          q \in Contents({"inst_a", NoneValue}, {TRUE})}
  \cup {[Default EXCEPT !.g = Seen(fn)] :
          fn \in {"fn_yield", "fn_break", "fn_continue", "fn_raise",
                  "fn_raise0", "fn_raise2", "fn_reraise", "fn_unbound"}}
  \cup {[Default EXCEPT !.g = Seen(fn), !.python_version = 3] :
          fn \in {"fn_raise", "fn_raise0", "fn_raise2", "fn_reraise"}}
  \cup {[Default EXCEPT !.prog = "main_twice", !.g = Seen("fn_bad"),
                        !.x = Seen(d)] : d \in {"inst_a", NoneValue}}
  \cup {[Default EXCEPT !.prog = p] : p \in InplacePrograms}
  \cup {[Default EXCEPT !.prog = "main_names", !.g = Seen("fn_bound")]}
  \cup {[Default EXCEPT !.prog = "main_setattr", !.x = q] :
          q \in Contents(ObjData, BOOLEAN)}
  \cup {[Default EXCEPT !.prog = "main_setattr_sum", !.l = Seen(d)] :
          d \in {"inst_a", NoneValue}}

\* the globals in the order their variables are created
GlobalOrder == <<"g", "x", "l", "r", "c", "f", "m1", "m2", "loop", "leaf",
                "n", "b", "builtin n">>

ContentOf(s, name) ==
  CASE name = "g" -> s.g
    [] name = "x" -> s.x
    [] name = "l" -> s.l
    [] name = "r" -> s.r
    [] name = "c" -> Seen("inst_a")
    [] name = "n" -> Seen("inst_b")
    [] name = "b" -> s.b
    [] name = "builtin n" -> Seen("native_a")
    [] OTHER -> Seen("fn_" \o name)

\* the bindings of a global with contents q
InitBindings(q) ==
  [i \in 1..Len(q) |->
     [data |-> q[i].data,
      origins |-> {[where |-> IF q[i].vis THEN RootNode ELSE OtherNode,
                    source_sets |-> {{}}]}]]

NoCallRecord ==
  [n |-> 0, funcu |-> 0, node |-> 0, fallback |-> FALSE, nb |-> 0,
   res |-> <<>>, error |-> 0, reported |-> 0, errors |-> <<>>, ret |-> 0,
   retnode |-> 0, bindings |-> <<>>, result |-> 0]

NoCut == [n |-> 0, code |-> "", before |-> <<>>, after |-> <<>>,
          made |-> 0, errors |-> 0]

NoAttr == [n |-> 0, obj |-> 0, node |-> 0, attr |-> "", vis |-> <<>>,
           answers |-> <<>>, errors |-> <<>>, result |-> 0, retnode |-> 0]

NoOperator == [n |-> 0, name |-> "", x |-> 0, y |-> 0, node |-> 0,
               trace |-> <<>>, calls |-> <<>>, reported |-> 0, joined |-> 0,
               errors |-> <<>>, result |-> 0]

NoJump == [n |-> 0, may_true |-> FALSE, may_false |-> FALSE]

NoStore == [n |-> 0, obj |-> 0, node |-> 0, before |-> NoState,
            vis |-> <<>>, targets |-> <<>>, nodes |-> <<>>]

NoInplace == [n |-> 0, opname |-> "", iname |-> "", x |-> 0, y |-> 0,
              trace |-> <<>>, reported |-> 0, joined |-> 0, errors |-> <<>>,
              result |-> 0]

EmptyHist == [call |-> NoCallRecord, cut |-> NoCut, attr |-> NoAttr,
              op |-> NoOperator, jump |-> NoJump, inplace |-> NoInplace,
              store |-> NoStore]

\* no abstract value with fields has been made
NoValues == [d \in {} |-> 0]

Init ==
  /\ scen \in Scenarios
  /\ frames = <<>>
  /\ frame = 0
  /\ nframes = 0
  /\ vars = [k \in 1..Len(GlobalOrder) |->
               InitBindings(ContentOf(scen, GlobalOrder[k]))]
  /\ nnodes = 2
  /\ edges = {<<RootNode, OtherNode>>}
  /\ errorlog = <<>>
  /\ phase = "init"
  /\ f_globals = [n \in GlobalNames \cup StoredNames |->
                    IF n \notin GlobalNames \/ (n = "n" /\ ~scen.n_global)
                      THEN 0
                      ELSE CHOOSE k \in 1..Len(GlobalOrder) :
                             GlobalOrder[k] = n]
  /\ values = NoValues
  /\ complexity = ConnectCost({}, edges)
  /\ final = [node |-> 0, ret |-> 0]
  /\ hist = EmptyHist

----------------------------------------------------------------------------
(* Attribute resolution: _retrieve_attr, _is_only_none, load_attr.        *)

\* what get_attribute_generic may answer for one binding: no such attribute
\* (None, or a variable without bindings), the attribute at the node of the
\* lookup or at a fresh successor of it, or a TypeParameterError
AttrAnswers == {"absent", "found", "found_fresh", "tperr"}

AttrAnswersFor(d) == IF d = Unsolvable THEN {"found"} ELSE AttrAnswers

\* the answers for the bindings of obj visible at node, one per binding
AnswersFor(vs, E, obj, node) ==
  LET vis == Bindings(vs, E, obj, node)
  IN {a \in [1..Len(vis) -> AttrAnswers] :
        \A k \in 1..Len(vis) : a[k] \in AttrAnswersFor(vs[obj][vis[k]].data)}

\* the attribute a lookup finds on a value
AttrOf(d) == IF d = Unsolvable THEN Unsolvable ELSE MethOf(d)

Error(kind, opcode, name) ==
  [kind |-> kind, opcode |-> opcode, name |-> name, cause |-> 0]

\* the key the error log tells its entries apart by: the location and the
\* message of a report
ErrorKey(e) == <<e.opcode, e.kind, e.name, e.cause>>

\* a faulty variant: a report is entered whether or not the log holds it
is_duplicate_never(log, e) == FALSE

\* the log holds an entry of the same location and message already
is_duplicate(log, e) ==
  \E k \in 1..Len(log) : ErrorKey(log[k]) = ErrorKey(e)

\* the entries of the error log after the reports of log, made one after
\* the other
RECURSIVE unique_errors(_)
unique_errors(log) ==
  IF log = <<>> THEN <<>>
  ELSE CHOOSE out \in
         {IF is_duplicate(rest, log[Len(log)]) THEN rest
          ELSE Append(rest, log[Len(log)]) :
          rest \in {unique_errors(SubSeq(log, 1, Len(log) - 1))}} : TRUE

\* a faulty variant: an answer without the attribute is merged as well
IsHitAlways(answer) == TRUE

\* is the attribute a binding answered with merged into the result (line 796)
IsHit(answer) == answer # "absent"

\* lines 789-804 for the visible binding vis[k], with its answer: the loop's
\* locals are r = [h, result, nodes]
retrieve_step(r, obj, node, attr, opcode, i, answer) ==
  LET h == r.h
      fresh == answer = "found_fresh"
      node2 == IF fresh THEN h.nnodes + 1 ELSE node
      attr_var == Len(h.vars) + 1
      data == IF answer = "tperr" THEN Unsolvable ELSE AttrOf(h.vars[obj][i].data)
      h1 == [h EXCEPT
               !.nnodes = IF fresh THEN @ + 1 ELSE @,
               !.edges = IF fresh THEN @ \cup {<<node, node2>>} ELSE @,
               !.errorlog = IF answer = "tperr"
                              THEN Append(@, Error("type_param_error",
                                                   opcode, attr))
                              ELSE @,
               !.vars = AddBinding(NewVariable(@), attr_var, data, {}, node2)]
  IN IF ~IsHit(answer) THEN r
     ELSE [h |-> [h1 EXCEPT !.vars = PasteVariable(@, r.result, attr_var,
                                                   node2)],
           result |-> r.result, nodes |-> Append(r.nodes, node2)]

RECURSIVE retrieve_loop(_, _, _, _, _, _, _, _)
retrieve_loop(r, obj, node, attr, opcode, vis, answers, k) ==
  IF k > Len(vis) THEN r
  ELSE retrieve_loop(
         retrieve_step(r, obj, node, attr, opcode, vis[k], answers[k]),
         obj, node, attr, opcode, vis, answers, k + 1)

\* a faulty variant: only what was bound at the node of the lookup itself
AttrCandidatesBoundHere(vs, E, obj, node) ==
  SelectSeq(Bindings(vs, E, obj, node),
            LAMBDA i : \E o \in vs[obj][i].origins : o.where = node)

\* the bindings _retrieve_attr resolves the attribute on (line 789)
AttrCandidates(vs, E, obj, node) == Bindings(vs, E, obj, node)

\* lines 805-808, r = [h, result, nodes] being the loop's locals behind it
retrieve_attr_return(r, node) ==
  LET j == join_cfg_nodes(r.h.nnodes, r.h.edges, r.nodes)
  IN IF r.nodes # <<>>
       THEN [h |-> [r.h EXCEPT !.nnodes = j.nnodes, !.edges = j.edges],
             node |-> j.node, result |-> r.result]
       ELSE [h |-> r.h, node |-> node, result |-> 0]

\* _retrieve_attr(node, obj, attr): [h, node, result], result 0 for None
retrieve_attr(h, node, obj, attr, opcode, answers) ==
  retrieve_attr_return(
    retrieve_loop([h |-> [h EXCEPT !.vars = NewVariable(@)],
                   result |-> Len(h.vars) + 1, nodes |-> <<>>],
                  obj, node, attr, opcode,
                  AttrCandidates(h.vars, h.edges, obj, node), answers, 1),
    node)

\* is a value the None instance (line 814)
IsNoneData(d) == d = NoneValue

\* _is_only_none, lines 812-818, over obj.Data(node) from position k on
RECURSIVE only_none_from(_, _, _, _)
only_none_from(vs, obj, vis, k) ==
  IF k > Len(vis) THEN TRUE                      \* has_none, set at line 812
  ELSE IF IsNoneData(vs[obj][vis[k]].data)
    THEN only_none_from(vs, obj, vis, k + 1)
    ELSE FALSE

\* a faulty variant: one None among the values is enough (the TODO of line
\* 811)
is_any_none(vs, E, node, obj) ==
  \E i \in 1..Len(vs[obj]) :
    /\ Visible(vs, E, <<obj, i>>, node, {})
    /\ IsNoneData(vs[obj][i].data)

is_only_none(vs, E, node, obj) ==
  only_none_from(vs, obj, Bindings(vs, E, obj, node), 1)

\* load_attr, lines 822-827: the error reported for a missing attribute, as
\* a sequence of zero or one errors
MissingAttrError(vs, E, node, obj, attr, opcode) ==
  IF Len(vs[obj]) = 0 THEN <<>>
  ELSE IF is_only_none(vs, E, node, obj)
    THEN <<Error("none_attr", opcode, attr)>>
    ELSE <<Error("attribute_error", opcode, attr)>>

\* load_attr, lines 822-829, r = [h, node, result] being what _retrieve_attr
\* returned: [h, st, result]
load_attr_return(r, st, obj, attr, opcode) ==
  LET u == create_new_unsolvable(r.h.vars, r.node)
  IN IF r.result = 0
       THEN [h |-> [r.h EXCEPT
                      !.errorlog = @ \o MissingAttrError(r.h.vars, r.h.edges,
                                                         st.node, obj, attr,
                                                         opcode),
                      !.vars = u.vars],
             st |-> change_cfg_node(st, r.node), result |-> u.v]
       ELSE [h |-> r.h, st |-> change_cfg_node(st, r.node),
             result |-> r.result]

\* load_attr(state, obj, attr): [h, st, result]
load_attr(h, st, obj, attr, opcode, answers) ==
  load_attr_return(retrieve_attr(h, st.node, obj, attr, opcode, answers),
                   st, obj, attr, opcode)

\* load_attr_noerror, line 833, r being what _retrieve_attr returned
load_attr_noerror_return(r, st) ==
  [h |-> r.h, st |-> change_cfg_node(st, r.node), result |-> r.result]

\* load_attr_noerror(state, obj, attr): [h, st, result], result 0 for None
load_attr_noerror(h, st, obj, attr, opcode, answers) ==
  load_attr_noerror_return(
    retrieve_attr(h, st.node, obj, attr, opcode, answers), st)

----------------------------------------------------------------------------
(* Binary operators: reverse_operator_name, call_binary_operator,         *)
(* binary_operator.                                                       *)

\* lines 202-207
reversable_operators ==
  {"__add__", "__sub__", "__mul__", "__div__", "__truediv__", "__floordiv__",
   "__mod__", "__divmod__", "__pow__", "__lshift__", "__rshift__", "__and__",
   "__or__", "__xor__"}

\* name[2:] for the names of the operators
Tail2(name) ==
  CASE name = "__add__" -> "add__"
    [] name = "__sub__" -> "sub__"
    [] name = "__mul__" -> "mul__"
    [] name = "__div__" -> "div__"
    [] name = "__truediv__" -> "truediv__"
    [] name = "__floordiv__" -> "floordiv__"
    [] name = "__mod__" -> "mod__"
    [] name = "__divmod__" -> "divmod__"
    [] name = "__pow__" -> "pow__"
    [] name = "__lshift__" -> "lshift__"
    [] name = "__rshift__" -> "rshift__"
    [] name = "__and__" -> "and__"
    [] name = "__or__" -> "or__"
    [] name = "__xor__" -> "xor__"
    [] OTHER -> "getitem__"

\* reverse_operator_name, lines 210-213; "" for None
reverse_operator_name(name) ==
  IF name \in reversable_operators THEN "__r" \o Tail2(name) ELSE ""

\* a faulty variant: the reflected method is consulted whatever the option
UsesReverseAlways(reverse_operators, rname) == rname # ""

\* line 576: is the reflected method consulted
UsesReverse(reverse_operators, rname) == reverse_operators /\ rname # ""

\* a step of an operator's dispatch, kept in hist
LookupStep(side, name, found) ==
  [what |-> "lookup", side |-> side, name |-> name, found |-> found,
   bindings |-> 0]
CallStep(side, name, ret, vs) ==
  [what |-> "call", side |-> side, name |-> name, found |-> TRUE,
   bindings |-> Len(vs[ret])]

\* the locals of call_binary_operator before any dispatch (line 566)
NoResults(h, st) ==
  [h |-> h, st |-> st, results |-> <<>>, trace |-> <<>>, calls |-> <<>>]

\* lines 573-574 and 583-584: the method the lookup a found has been called,
\* c is what call_function returned
dispatch_call(d, side, name, a, c) ==
  [h |-> c.h, st |-> change_cfg_node(a.st, c.node),
   results |-> Append(d.results, c.ret),
   trace |-> d.trace \o <<LookupStep(side, name, TRUE),
                          CallStep(side, name, c.ret, c.h.vars)>>,
   calls |-> Append(d.calls, c.rec)]

\* a faulty variant: the method is called with the default, the fallback to
\* the give-up value
dispatch_lookup_fallback(d, side, name, a, opcode, outs) ==
  IF a.result = 0
    THEN [d EXCEPT !.h = a.h, !.st = a.st,
                   !.trace = Append(@, LookupStep(side, name, FALSE))]
    ELSE dispatch_call(d, side, name, a,
                       call_function(a.h, a.st.node, a.result, TRUE, opcode,
                                     outs))

\* lines 569-574 and 578-584: a = [h, st, result] is what load_attr_noerror
\* returned; a method that was found is called, without fallback
dispatch_lookup(d, side, name, a, opcode, outs) ==
  IF a.result = 0
    THEN [d EXCEPT !.h = a.h, !.st = a.st,
                   !.trace = Append(@, LookupStep(side, name, FALSE))]
    ELSE dispatch_call(d, side, name, a,
                       call_function(a.h, a.st.node, a.result, FALSE, opcode,
                                     outs))

\* lines 568-574 (side "left": name on x, called with y) and lines 577-584
\* (side "right": rname on y, called with x): d is [h, st, results, trace,
\* calls]; answers are the lookup's and outs the candidates' answers
dispatch(d, side, name, obj, opcode, answers, outs) ==
  dispatch_lookup(d, side, name,
                  load_attr_noerror(d.h, d.st, obj, name, opcode, answers),
                  opcode, outs)

\* lines 575-584: the reflected method, behind the dispatch to x that left d
dispatch_reverse(d, rname, y, reverse_operators, opcode, ra, ro) ==
  IF UsesReverse(reverse_operators, rname)
    THEN dispatch(d, "right", rname, y, opcode, ra, ro)
    ELSE d

\* a faulty variant: the error is reported whatever the result holds
ReportsUnsupportedAlways(result_bindings, report_errors) == report_errors

\* lines 587-589: is the unsupported-operands error reported
ReportsUnsupported(result_bindings, report_errors) ==
  result_bindings = 0 /\ report_errors

\* lines 585-590: the results are joined and an empty result is reported
call_binary_operator_return(d, name, report_errors, opcode) ==
  LET m == join_variables(d.h.vars, d.st.node, d.results)
  IN [h |-> [d.h EXCEPT
               !.vars = m.vars,
               !.errorlog =
                 IF ReportsUnsupported(Len(m.vars[m.v]), report_errors)
                   THEN Append(@, Error("unsupported_operands", opcode, name))
                   ELSE @],
      st |-> d.st, result |-> m.v, trace |-> d.trace, calls |-> d.calls,
      joined |-> Len(m.vars[m.v]),
      reported |-> IF ReportsUnsupported(Len(m.vars[m.v]), report_errors)
                     THEN 1 ELSE 0]

\* call_binary_operator(state, name, x, y, report_errors): [h, st, result,
\* trace, calls, reported].  la, lo: the answers of the lookup of name on x
\* and of the call of what it found; ra, ro: the same for the reflected
\* method on y.
call_binary_operator(h, st, name, x, y, report_errors, reverse_operators, opcode, la, lo, ra, ro) ==
  call_binary_operator_return(
    dispatch_reverse(dispatch(NoResults(h, st), "left", name, x, opcode,
                              la, lo),
                     reverse_operator_name(name), y, reverse_operators,
                     opcode, ra, ro),
    name, report_errors, opcode)

\* line 611: state.push(ret), r being what call_binary_operator returned
push_ret(r) == [r EXCEPT !.st = push(@, r.result)]

\* binary_operator(state, name), lines 607-611
binary_operator(h, st, name, reverse_operators, opcode, la, lo, ra, ro) ==
  push_ret(call_binary_operator(h, popn_state(st, 2), name, topn(st, 2)[1],
                                topn(st, 2)[2], TRUE, reverse_operators,
                                opcode, la, lo, ra, ro))

\* a faulty variant: what was reported stays reported
binary_subscr_return_logged(r, checkpoint) ==
  IF Len(r.h.vars[top(r.st)]) > 0 THEN r
  ELSE [r EXCEPT !.h.vars = AddBinding(@, top(r.st), Unsolvable, {},
                                       r.st.node)]

\* byte_BINARY_SUBSCR, lines 1017-1026, r being what binary_operator
\* returned: a result without bindings gets the give-up value and the error
\* log is set back to the checkpoint
binary_subscr_return(r, checkpoint) ==
  IF Len(r.h.vars[top(r.st)]) > 0 THEN r
  ELSE [r EXCEPT !.h.errorlog = checkpoint,
                 !.h.vars = AddBinding(@, top(r.st), Unsolvable, {},
                                       r.st.node)]

\* byte_BINARY_SUBSCR, lines 1013-1026
binary_subscr(h, st, reverse_operators, opcode, la, lo, ra, ro) ==
  binary_subscr_return(
    binary_operator(h, st, "__getitem__", reverse_operators, opcode,
                    la, lo, ra, ro),
    h.errorlog)

\* the methods of the binary opcodes (lines 974-1011)
binary_method(opname) ==
  CASE opname = "BINARY_ADD" -> "__add__"
    [] opname = "BINARY_SUBTRACT" -> "__sub__"
    [] opname = "BINARY_DIVIDE" -> "__div__"
    [] opname = "BINARY_MULTIPLY" -> "__mul__"
    [] opname = "BINARY_MODULO" -> "__mod__"
    [] opname = "BINARY_LSHIFT" -> "__lshift__"
    [] opname = "BINARY_RSHIFT" -> "__rshift__"
    [] opname = "BINARY_AND" -> "__and__"
    [] opname = "BINARY_XOR" -> "__xor__"
    [] opname = "BINARY_OR" -> "__or__"
    [] opname = "BINARY_FLOOR_DIVIDE" -> "__floordiv__"
    [] opname = "BINARY_TRUE_DIVIDE" -> "__truediv__"
    [] opname = "BINARY_POWER" -> "__pow__"
    [] OTHER -> ""

\* the methods of the in-place opcodes (lines 1028-1065)
inplace_method(opname) ==
  CASE opname = "INPLACE_ADD" -> "__iadd__"
    [] opname = "INPLACE_SUBTRACT" -> "__isub__"
    [] opname = "INPLACE_MULTIPLY" -> "__imul__"
    [] opname = "INPLACE_DIVIDE" -> "__idiv__"
    [] opname = "INPLACE_MODULO" -> "__imod__"
    [] opname = "INPLACE_POWER" -> "__ipow__"
    [] opname = "INPLACE_LSHIFT" -> "__ilshift__"
    [] opname = "INPLACE_RSHIFT" -> "__irshift__"
    [] opname = "INPLACE_AND" -> "__iand__"
    [] opname = "INPLACE_XOR" -> "__ixor__"
    [] opname = "INPLACE_OR" -> "__ior__"
    [] opname = "INPLACE_FLOOR_DIVIDE" -> "__ifloordiv__"
    [] opname = "INPLACE_TRUE_DIVIDE" -> "__itruediv__"
    [] OTHER -> ""

\* str.find(old): the index of the first old in s from k on, 0 for none
RECURSIVE find(_, _, _)
find(s, old, k) ==
  IF k + Len(old) - 1 > Len(s) THEN 0
  ELSE IF SubSeq(s, k, k + Len(old) - 1) = old THEN k
  ELSE find(s, old, k + 1)

\* a faulty variant: the last character that is old is dropped
replace_last(s, old) ==
  LET ks == {k \in 1..Len(s) : SubSeq(s, k, k) = old}
      k == IF ks = {} THEN 0 ELSE CHOOSE m \in ks : \A n \in ks : n <= m
  IN IF k = 0 THEN s
     ELSE SubSeq(s, 1, k - 1) \o SubSeq(s, k + 1, Len(s))

\* s.replace(old, "", 1): s without the first old in it (line 597)
replace_first(s, old) ==
  LET k == find(s, old, 1)
  IN IF k = 0 THEN s
     ELSE SubSeq(s, 1, k - 1) \o SubSeq(s, k + Len(old), Len(s))

\* call_inplace_operator, lines 594-604, d being the lookup of iname on x
\* and the call of what it found: nothing found, and the binary operator is
\* called with report_errors set; otherwise the result is what the call
\* returned
call_inplace_operator_return(d, iname, x, y, reverse_operators, opcode, la, lo, ra, ro) ==
  IF d.results = <<>>
    THEN LET r == call_binary_operator(d.h, d.st, replace_first(iname, "i"),
                                       x, y, TRUE, reverse_operators, opcode,
                                       la, lo, ra, ro)
         IN [r EXCEPT !.trace = d.trace \o @]
    ELSE [h |-> d.h, st |-> d.st, result |-> d.results[1], trace |-> d.trace,
          calls |-> d.calls, joined |-> Len(d.h.vars[d.results[1]]),
          reported |-> 0]

\* call_inplace_operator(state, iname, x, y), lines 592-605
call_inplace_operator(h, st, iname, x, y, reverse_operators, opcode, ia, io, la, lo, ra, ro) ==
  call_inplace_operator_return(
    dispatch(NoResults(h, st), "left", iname, x, opcode, ia, io),
    iname, x, y, reverse_operators, opcode, la, lo, ra, ro)

\* inplace_operator(state, name), lines 613-616
inplace_operator(h, st, iname, reverse_operators, opcode, ia, io, la, lo, ra, ro) ==
  push_ret(call_inplace_operator(h, popn_state(st, 2), iname,
                                 topn(st, 2)[1], topn(st, 2)[2],
                                 reverse_operators, opcode,
                                 ia, io, la, lo, ra, ro))

----------------------------------------------------------------------------
(* run_program, run_frame and run_instruction *)

SetHeap(h) ==
  /\ vars' = h.vars
  /\ nnodes' = h.nnodes
  /\ edges' = h.edges
  /\ errorlog' = h.errorlog
  /\ f_globals' = h.f_globals
  /\ values' = h.values
  /\ Connected(edges, h.edges)

\* run_program, lines 541-551, and run_bytecode: the nodes "builtins" and
\* "init" follow the root, the module's frame is made and run_frame begins
run_program ==
  /\ phase = "init"
  /\ phase' = "running"
  /\ nnodes' = nnodes + 2
  /\ edges' = edges \cup {<<RootNode, nnodes + 1>>, <<nnodes + 1, nnodes + 2>>}
  /\ vars' = NewVariables(vars, frame_variables(scen.prog))
  /\ nframes' = nframes + 1
  /\ frames' = StartFrame(frames, nframes + 1, scen.prog, nnodes + 2,
                          Len(vars) + 1)
  /\ frame' = nframes + 1
  /\ Connected(edges, edges')
  /\ UNCHANGED <<errorlog, scen, f_globals, values, final>>
  /\ hist' = EmptyHist

\* the block run_frame's loop is at
BlockOf(fr) == Code(fr.f_code).order[fr.blk]

AtBlockLoop ==
  /\ phase = "running"
  /\ frames # <<>>
  /\ Top.mode = "pick"
  /\ Top.blk <= Len(Code(Top.f_code).order)

\* a faulty variant: behind a jump the loop goes on with the block the jump
\* leads to
NextBlockFollowsJump(fr) ==
  IF fr.opi > 0 /\ Code(fr.f_code).ops[fr.opi].name = "JUMP_ABSOLUTE"
    THEN CHOOSE b \in 1..Len(Code(fr.f_code).order) :
           Code(fr.f_code).order[b][1] = Code(fr.f_code).ops[fr.opi].target
    ELSE fr.blk + 1

\* run_frame, line 176: the loop goes on with the block that follows in
\* f_code.order
NextBlock(fr) == fr.blk + 1

\* run_frame, lines 177-183: a block without a state is skipped
run_frame_skip_block ==
  /\ AtBlockLoop
  /\ ~Top.states[BlockOf(Top)[1]].live
  /\ frames' = [frames EXCEPT ![Len(frames)].blk = NextBlock(Top)]
  /\ UNCHANGED <<frame, nframes, vars, nnodes, edges, errorlog, phase, scen,
                 f_globals, values, complexity, final>>
  /\ hist' = EmptyHist

\* run_frame, lines 178, 184-185: the opcodes of a block with a state run
run_frame_enter_block ==
  /\ AtBlockLoop
  /\ Top.states[BlockOf(Top)[1]].live
  /\ frames' = [frames EXCEPT ![Len(frames)] =
                  [@ EXCEPT !.mode = "ops", !.opi = BlockOf(Top)[1],
                            !.ran = Append(@, Top.blk),
                            !.state = Top.states[BlockOf(Top)[1]]]]
  /\ UNCHANGED <<frame, nframes, vars, nnodes, edges, errorlog, phase, scen,
                 f_globals, values, complexity, final>>
  /\ hist' = EmptyHist

\* the opcode about to run in the current frame
CurOp == Code(Top.f_code).ops[Top.opi]

\* an opcode named name is about to run
AtOp(name) ==
  /\ phase = "running"
  /\ frames # <<>>
  /\ Top.mode = "ops"
  /\ ~Top.call.active
  /\ CurOp.name = name

\* run_instruction, lines 157-158
NormalizeWhy(st) == IF st.why = "reraise" THEN set_why(st, "exception") ELSE st

\* a faulty variant: the opcode loop goes on to the end of the block
\* whatever the state
AfterInstructionToTheEnd(fr, st, states) ==
  [fr EXCEPT !.state = NormalizeWhy(st), !.states = states, !.call = NoCall,
             !.pre = NoState, !.post = NoState,
             !.mode = IF fr.opi = BlockOf(fr)[2] THEN "end" ELSE "ops",
             !.opi = IF fr.opi = BlockOf(fr)[2] THEN @ ELSE @ + 1]

\* run_instruction returns st (lines 157-160) and run_frame's opcode loop
\* goes on or ends (lines 185-189)
AfterInstruction(fr, st, states) ==
  LET s == NormalizeWhy(st)
  IN [fr EXCEPT !.state = s, !.states = states, !.call = NoCall,
                !.pre = NoState, !.post = NoState,
                !.mode = IF s.why # "none" \/ fr.opi = BlockOf(fr)[2]
                           THEN "end" ELSE "ops",
                !.opi = IF s.why # "none" \/ fr.opi = BlockOf(fr)[2]
                          THEN @ ELSE @ + 1]

\* the current frame's opcode has run: r is [h, st, states]
Commit(r) ==
  /\ frames' = [frames EXCEPT ![Len(frames)] =
                  AfterInstruction(Top, r.st, r.states)]
  /\ SetHeap(r.h)
  /\ UNCHANGED <<frame, nframes, phase, scen, final>>

\* load_global (lines 738-739): the variable of a global, 0 when missing
Lookup(name) == IF name \in DOMAIN f_globals THEN f_globals[name] ELSE 0

\* frame.f_builtins: the builtins the loader knows, name -> variable id
f_builtins ==
  [name \in {"n"} |->
     IF scen.n_builtin
       THEN CHOOSE k \in 1..Len(GlobalOrder) : GlobalOrder[k] = "builtin n"
       ELSE 0]

\* the builtins the machine answers itself (lines 99-110, 750)
special_builtins ==
  {"__undefined__", "super", "__random__", "True", "False", "isinstance"}

\* load_local, load_global and load_builtin (lines 724-757) by load_from
\* (lines 715-722): the variable name has in a store of frame fr, 0 standing
\* for the KeyError, -1 for a builtin the machine answers itself
load_from(fr, store, name) ==
  CASE store = "locals" ->
         IF ~fr.new_locals THEN Lookup(name)
         ELSE IF name \in DOMAIN fr.f_locals THEN fr.f_locals[name] ELSE 0
    [] store = "globals" -> Lookup(name)
    [] OTHER ->
         IF name \in special_builtins THEN -1
         ELSE IF name \in DOMAIN f_builtins THEN f_builtins[name] ELSE 0

\* a faulty variant: the globals are asked before the locals
NameStoresGlobalsFirst(opname) ==
  IF opname = "LOAD_NAME" THEN <<"globals", "locals", "builtins">>
  ELSE <<"globals", "builtins">>

\* the stores an opcode looks a name up in, in the order of its nested try
\* statements: byte_LOAD_NAME (lines 1103-1110), byte_LOAD_GLOBAL (lines
\* 1154-1158)
NameStores(opname) ==
  IF opname = "LOAD_NAME" THEN <<"locals", "globals", "builtins">>
  ELSE <<"globals", "builtins">>

\* a faulty variant: a name no store holds ends the opcode as an exception
\* would, with nothing pushed
load_name_raising(h, fr, name, opcode, stores) ==
  IF \E k \in 1..Len(stores) : load_from(fr, stores[k], name) # 0
    THEN [h |-> h, st |-> push(fr.state, load_from(fr, stores[1], name))]
    ELSE [h |-> [h EXCEPT !.errorlog =
                   Append(@, Error("name_error", opcode, name))],
          st |-> set_why(fr.state, "exception")]

\* byte_LOAD_NAME and byte_LOAD_GLOBAL behind the name: [h, st]
load_name(h, fr, name, opcode, stores) ==
  LET hits == SelectSeq(stores, LAMBDA w : load_from(fr, w, name) # 0)
      u == create_new_unsolvable(h.vars, fr.state.node)
      v == Len(h.vars) + 1
  IN IF hits = <<>>
       THEN [h |-> [h EXCEPT !.vars = u.vars,
                             !.errorlog =
                               Append(@, Error("name_error", opcode, name))],
             st |-> push(fr.state, u.v)]
     ELSE IF load_from(fr, hits[1], name) = -1
       THEN [h |-> [h EXCEPT !.vars =
                      AddBinding(NewVariable(@), v, "special", {},
                                 fr.state.node)],
             st |-> push(fr.state, v)]
     ELSE [h |-> h, st |-> push(fr.state, load_from(fr, hits[1], name))]

LoadName(opname) ==
  /\ AtOp(opname)
  /\ \E r \in {load_name(Heap, Top, CurOp.arg, <<Top.f_code, Top.opi>>,
                         NameStores(opname))} :
       Commit([h |-> r.h, st |-> r.st, states |-> Top.states])
  /\ hist' = EmptyHist

byte_LOAD_NAME == LoadName("LOAD_NAME")

byte_LOAD_GLOBAL == LoadName("LOAD_GLOBAL")

\* set_attribute of the dict of a frame's locals, as store_local (lines
\* 759-763) uses it: a member there is gets the bindings of value, a member
\* missing is a new variable with them.  old is the member, 0 when missing;
\* the result is [vars, v].
set_attribute(vs, old, value, node) ==
  IF old # 0
    THEN [vars |-> PasteVariable(vs, old, value, node), v |-> old]
    ELSE [vars |-> PasteVariable(NewVariable(vs), Len(vs) + 1, value, node),
          v |-> Len(vs) + 1]

\* what set_attribute of a value may return: the node it was given, or a
\* fresh successor of it
StoreAnswers == {"same", "fresh"}

\* a faulty variant: the bindings visible at the node
StoreTargetsVisible(vs, E, obj, node) == Bindings(vs, E, obj, node)

\* the bindings store_attr sets the attribute on (line 845: obj.bindings)
StoreTargets(vs, E, obj, node) == [i \in 1..Len(vs[obj]) |-> i]

\* line 846 for the binding i of obj, with the answer of its set_attribute:
\* the member of the value is a Variable with the bindings of value; the
\* give-up value keeps no members.  r = [h, nodes] are the loop's locals.
store_step(r, obj, node, value, i, answer) ==
  LET h == r.h
      fresh == answer = "fresh"
      node2 == IF fresh THEN h.nnodes + 1 ELSE node
  IN [h |-> [h EXCEPT
               !.nnodes = IF fresh THEN @ + 1 ELSE @,
               !.edges = IF fresh THEN @ \cup {<<node, node2>>} ELSE @,
               !.vars = IF h.vars[obj][i].data = Unsolvable THEN @
                        ELSE set_attribute(@, 0, value, node).vars],
      nodes |-> Append(r.nodes, node2)]

RECURSIVE store_loop(_, _, _, _, _, _, _)
store_loop(r, obj, node, value, targets, answers, k) ==
  IF k > Len(targets) THEN r
  ELSE store_loop(store_step(r, obj, node, value, targets[k], answers[k]),
                  obj, node, value, targets, answers, k + 1)

\* lines 847-848, r = [h, nodes] being the loop's locals behind it
store_attr_return(r, st) ==
  LET j == join_cfg_nodes(r.h.nnodes, r.h.edges, r.nodes)
  IN [h |-> [r.h EXCEPT !.nnodes = j.nnodes, !.edges = j.edges],
      st |-> change_cfg_node(st, j.node), nodes |-> r.nodes]

\* store_attr(state, obj, attr, value), lines 835-848: [h, st, nodes]
store_attr(h, st, obj, value, answers) ==
  IF Len(h.vars[obj]) = 0
    THEN [h |-> h, st |-> st, nodes |-> <<>>]
    ELSE store_attr_return(
           store_loop([h |-> h, nodes |-> <<>>], obj, st.node, value,
                      StoreTargets(h.vars, h.edges, obj, st.node), answers, 1),
           st)

\* byte_STORE_NAME (lines 1117-1121) with store_local (lines 759-763)
byte_STORE_NAME ==
  /\ AtOp("STORE_NAME")
  /\ \E m \in {set_attribute(vars, load_from(Top, "locals", CurOp.arg),
                             top(Top.state), Top.state.node)} :
     \E f \in {forward_cfg_node(
                 [Heap EXCEPT !.vars = m.vars,
                              !.f_globals = IF Top.new_locals THEN @
                                            ELSE [@ EXCEPT ![CurOp.arg] = m.v]],
                 pop_and_discard(Top.state))} :
       /\ frames' = [frames EXCEPT ![Len(frames)] =
            AfterInstruction(
              [Top EXCEPT !.f_locals = IF Top.new_locals
                                         THEN [@ EXCEPT ![CurOp.arg] = m.v]
                                         ELSE @],
              f.st, Top.states)]
       /\ SetHeap(f.h)
  /\ UNCHANGED <<frame, nframes, phase, scen, final>>
  /\ hist' = EmptyHist

\* byte_LOAD_CONST (lines 1067-1069): the constant's variable, bound at the
\* root node as convert_constant binds it
byte_LOAD_CONST ==
  /\ AtOp("LOAD_CONST")
  /\ Commit([h |-> [Heap EXCEPT !.vars =
                      AddBinding(NewVariable(@), Len(vars) + 1, CurOp.arg,
                                 {}, RootNode)],
             st |-> push(Top.state, Len(vars) + 1), states |-> Top.states])
  /\ hist' = EmptyHist

\* byte_IMPORT_NAME (lines 1760-1784): import_module (lines 888-929) finds
\* the module, answers None, or the loader fails to parse it; the two
\* arguments leave the stack and one variable enters it
byte_IMPORT_NAME ==
  /\ AtOp("IMPORT_NAME")
  /\ \E found \in {"module", "none", "parse_error"} :
     \E st \in {popn_state(Top.state, 2)} :
       Commit([h |-> [Heap EXCEPT
                 !.vars = AddBinding(NewVariable(@), Len(vars) + 1,
                                     IF found = "module" THEN CurOp.arg
                                     ELSE Unsolvable, {}, st.node),
                 !.errorlog =
                   CASE found = "module" -> @
                     [] found = "none" ->
                       Append(@, Error("import_error",
                                       <<Top.f_code, Top.opi>>, CurOp.arg))
                     [] OTHER ->
                       Append(@, Error("pyi_error",
                                       <<Top.f_code, Top.opi>>, CurOp.arg))],
               st |-> push(st, Len(vars) + 1), states |-> Top.states])
  /\ hist' = EmptyHist

\* byte_IMPORT_FROM (lines 1786-1802): the attribute of the module on top of
\* the stack, pushed above it; a loader that fails and an attribute missing
\* are both reported and answered by a give-up variable
byte_IMPORT_FROM ==
  /\ AtOp("IMPORT_FROM")
  /\ \E raises \in BOOLEAN,
        answers \in AnswersFor(vars, edges, top(Top.state), Top.state.node) :
     \E r \in {IF raises THEN [h |-> Heap, st |-> Top.state, result |-> 0]
               ELSE load_attr_noerror(Heap, Top.state, top(Top.state),
                                      CurOp.arg, <<Top.f_code, Top.opi>>,
                                      answers)} :
     \E u \in {create_new_unsolvable(r.h.vars, r.st.node)} :
       Commit([h |-> IF r.result # 0 THEN r.h
                     ELSE [r.h EXCEPT
                             !.vars = u.vars,
                             !.errorlog =
                               Append(@, Error(IF raises THEN "pyi_error"
                                               ELSE "import_from_error",
                                               <<Top.f_code, Top.opi>>,
                                               CurOp.arg))],
               st |-> push(r.st, IF r.result # 0 THEN r.result ELSE u.v),
               states |-> Top.states])
  /\ hist' = EmptyHist

\* the next unused identity of a sequence of identities
NextOf(ids) ==
  ids[Cardinality(DOMAIN values \cap {ids[k] : k \in DOMAIN ids}) + 1]

\* what a container holds: the variables of a tuple's elements, and the
\* Variable of the type parameter of a list's elements or a dict's values
\* (init_type_parameters makes it, without bindings); 0 where there is none
Container(elts, T) == [elts |-> elts, T |-> T]

\* the lists and dicts among the data
IsContainer(d) ==
  \/ \E k \in DOMAIN Lists : Lists[k] = d
  \/ \E k \in DOMAIN Dicts : Dicts[k] = d

\* a faulty variant: every value may be true and may be false
compatible_with_both(h, d, b) == TRUE

\* compatible_with(b) of the value d, as abstract_test.py pins it down: a
\* list or dict may be true only once its type parameter has a binding and
\* may always be false; None may only be false; another instance may be
\* either
compatible_with(h, d, b) ==
  CASE IsContainer(d) -> ~b \/ Len(h.vars[h.values[d].T]) > 0
    [] d = NoneValue -> ~b
    [] OTHER -> TRUE

\* may a binding of variable v be as true as b
MayBe(h, v, b) ==
  \E i \in 1..Len(h.vars[v]) : compatible_with(h, h.vars[v][i].data, b)

\* a faulty variant: the parameter is the Variable inserted last
merge_type_parameter_replacing(h, node, d, value) ==
  [h EXCEPT !.values[d].T = value]

\* merge_type_parameter(node, name, value) of the container d: the bindings
\* of value are pasted into the Variable of the parameter
merge_type_parameter(h, node, d, value) ==
  [h EXCEPT !.vars = PasteVariable(@, h.values[d].T, value, node)]

\* the containers among the bindings of obj visible at node get value
RECURSIVE setitem(_, _, _, _, _, _)
setitem(h, node, obj, vis, value, k) ==
  IF k > Len(vis) THEN h
  ELSE setitem(IF IsContainer(h.vars[obj][vis[k]].data)
                 THEN merge_type_parameter(h, node, h.vars[obj][vis[k]].data,
                                           value)
                 ELSE h,
               node, obj, vis, value, k + 1)

\* store_subscr (lines 1266-1269): __setitem__ of a dict is there and its
\* call merges the value into the type parameter of the dict's values
store_subscr(h, st, obj, key, val) ==
  [h |-> setitem(h, st.node, obj, Bindings(h.vars, h.edges, obj, st.node),
                 val, 1),
   st |-> st]

\* byte_STORE_SUBSCR (lines 1271-1275)
byte_STORE_SUBSCR ==
  /\ AtOp("STORE_SUBSCR")
  /\ \E a \in {topn(Top.state, 3)} :
     \E f \in {forward_cfg_node(Heap, popn_state(Top.state, 3))} :
     \E r \in {store_subscr(f.h, f.st, a[2], a[3], a[1])} :
       Commit([h |-> r.h, st |-> r.st, states |-> Top.states])
  /\ hist' = EmptyHist

\* byte_BUILD_LIST (lines 1286-1289) with build_list: the elements are
\* merged into the type parameter of the new list
byte_BUILD_LIST ==
  /\ AtOp("BUILD_LIST")
  /\ \E id \in {NextOf(Lists)} :
     \E st \in {popn_state(Top.state, CurOp.arg)} :
       Commit([h |-> [Heap EXCEPT
                 !.vars = PasteAll(
                            AddBinding(NewVariable(NewVariable(@)),
                                       Len(vars) + 1, id, {}, st.node),
                            Len(vars) + 2, topn(Top.state, CurOp.arg),
                            st.node, 1),
                 !.values = (id :> Container(<<>>, Len(vars) + 2)) @@ @],
               st |-> push(st, Len(vars) + 1), states |-> Top.states])
  /\ hist' = EmptyHist

\* byte_BUILD_TUPLE (lines 1281-1284) with build_tuple
byte_BUILD_TUPLE ==
  /\ AtOp("BUILD_TUPLE")
  /\ \E id \in {NextOf(Tuples)} :
     \E st \in {popn_state(Top.state, CurOp.arg)} :
       Commit([h |-> [Heap EXCEPT
                 !.vars = AddBinding(NewVariable(@), Len(vars) + 1, id, {},
                                     st.node),
                 !.values = (id :> Container(topn(Top.state, CurOp.arg), 0))
                              @@ @],
               st |-> push(st, Len(vars) + 1), states |-> Top.states])
  /\ hist' = EmptyHist

\* byte_BUILD_MAP (lines 1296-1298) with build_map
byte_BUILD_MAP ==
  /\ AtOp("BUILD_MAP")
  /\ \E id \in {NextOf(Dicts)} :
       Commit([h |-> [Heap EXCEPT
                 !.vars = AddBinding(NewVariable(NewVariable(@)),
                                     Len(vars) + 1, id, {}, Top.state.node),
                 !.values = (id :> Container(<<>>, Len(vars) + 2)) @@ @],
               st |-> push(Top.state, Len(vars) + 1), states |-> Top.states])
  /\ hist' = EmptyHist

\* make_class (lines 356-397): [h, v].  Every base without a class among its
\* data is reported and the class is made all the same; a members variable
\* that is not atomic gives an unknown; mro_ok is whether InterpreterClass
\* could linearize the bases.
make_class(h, node, opcode, name, bases, class_dict_var, mro_ok) ==
  LET bad == SelectSeq(bases, LAMBDA b :
               ~\E i \in 1..Len(h.vars[b]) :
                  h.vars[b][i].data \in Classes \cup {Unsolvable, "unknown"})
      errs == [k \in 1..Len(bad) |-> Error("base_class_error", opcode, name)]
      v == Len(h.vars) + 1
  IN IF Len(h.vars[class_dict_var]) # 1
       THEN [h |-> [h EXCEPT !.vars = AddBinding(NewVariable(@), v, "unknown",
                                                 {}, node)],
             v |-> v]
     ELSE IF ~mro_ok
       THEN [h |-> [h EXCEPT
                      !.vars = create_new_unsolvable(@, node).vars,
                      !.errorlog = @ \o errs
                                     \o <<Error("mro_error", opcode, name)>>],
             v |-> v]
     ELSE [h |-> [h EXCEPT
                    !.vars = AddBinding(NewVariable(@), v, name,
                               {<<class_dict_var, i>> :
                                  i \in 1..Len(h.vars[class_dict_var])}, node),
                    !.errorlog = @ \o errs],
           v |-> v]

\* byte_BUILD_CLASS (lines 1809-1812): name, bases and members leave the
\* stack, the class enters it
byte_BUILD_CLASS ==
  /\ AtOp("BUILD_CLASS")
  /\ \E mro_ok \in BOOLEAN :
     \E a \in {topn(Top.state, 3)} :
     \E st \in {popn_state(Top.state, 3)} :
     \E r \in {make_class(Heap, st.node, <<Top.f_code, Top.opi>>,
                          vars[a[1]][1].data,
                          values[vars[a[2]][1].data].elts, a[3], mro_ok)} :
       Commit([h |-> r.h, st |-> push(st, r.v), states |-> Top.states])
  /\ hist' = EmptyHist

\* a faulty variant: the cell is given the bindings of the value in place of
\* its own
store_deref_assign(vs, cell, value, node) == [vs EXCEPT ![cell] = vs[value]]

\* byte_STORE_DEREF, line 1199: the value is pasted into the cell
store_deref(vs, cell, value, node) == PasteVariable(vs, cell, value, node)

\* byte_STORE_DEREF, lines 1195-1200
byte_STORE_DEREF ==
  /\ AtOp("STORE_DEREF")
  /\ Commit([h |-> [Heap EXCEPT !.vars =
                      store_deref(@, Top.cells[CurOp.arg], top(Top.state),
                                  Top.state.node)],
             st |-> pop_and_discard(Top.state), states |-> Top.states])
  /\ hist' = EmptyHist

\* byte_LOAD_DEREF, lines 1190-1193
byte_LOAD_DEREF ==
  /\ AtOp("LOAD_DEREF")
  /\ Commit([h |-> Heap, st |-> push(Top.state, Top.cells[CurOp.arg]),
             states |-> Top.states])
  /\ hist' = EmptyHist

\* byte_POP_TOP
byte_POP_TOP ==
  /\ AtOp("POP_TOP")
  /\ Commit([h |-> Heap, st |-> pop_and_discard(Top.state),
             states |-> Top.states])
  /\ hist' = EmptyHist

\* byte_RETURN_VALUE (no annotated return type)
byte_RETURN_VALUE ==
  /\ AtOp("RETURN_VALUE")
  /\ LET st == pop_and_discard(Top.state)
     IN Commit([h |-> [Heap EXCEPT !.vars =
                         PasteVariable(@, Top.return_variable,
                                       top(Top.state), st.node)],
                st |-> set_why(st, "return"), states |-> Top.states])
  /\ hist' = EmptyHist

\* byte_YIELD_VALUE, lines 1755-1758
byte_YIELD_VALUE ==
  /\ AtOp("YIELD_VALUE")
  /\ LET st == pop_and_discard(Top.state)
     IN Commit([h |-> [Heap EXCEPT !.vars =
                         PasteVariable(@, Top.yield_variable,
                                       top(Top.state), st.node)],
                st |-> set_why(st, "yield"), states |-> Top.states])
  /\ hist' = EmptyHist

\* byte_BREAK_LOOP, lines 1485-1486
byte_BREAK_LOOP ==
  /\ AtOp("BREAK_LOOP")
  /\ Commit([h |-> Heap, st |-> set_why(Top.state, "break"),
             states |-> Top.states])
  /\ hist' = EmptyHist

\* byte_CONTINUE_LOOP, lines 1488-1496
byte_CONTINUE_LOOP ==
  /\ AtOp("CONTINUE_LOOP")
  /\ Commit([h |-> Heap, st |-> set_why(Top.state, "continue"),
             states |-> Top.states])
  /\ hist' = EmptyHist

\* a faulty variant: whatever an opcode raises is an exception of the
\* program
InterceptsAll(exc) == TRUE

\* the exceptions run_instruction handles itself (lines 144-156)
Intercepts(exc) == exc \in {"RecursionException", "ByteCodeException"}

\* a faulty variant: the reason is the name of the exception
raised_by_name(st, exc) == IF Intercepts(exc) THEN set_why(st, exc) ELSE st

\* run_instruction, lines 148-156: an opcode raised a ByteCodeException;
\* the opcode ends with the state it began with and why = "exception"
raised(st, exc) ==
  IF Intercepts(exc) THEN set_why(st, "exception") ELSE st

\* byte_RAISE_VARARGS_PY2, lines 1514-1543: [st, exc].  No exception is set
\* on a state before the first raise, so a raise without arguments raises
\* ByteCodeTypeError; the traceback of a raise with three is a value, hence
\* true.
raise_varargs(st, argc) ==
  IF argc = 0 THEN [st |-> st, exc |-> "ByteCodeException"]
  ELSE [st |-> set_why(popn_state(st, argc),
                       IF argc = 3 THEN "reraise" ELSE "exception"),
        exc |-> ""]

\* a faulty variant: whatever is raised ends the block
do_raise_always(st, exc, cause) == set_why(st, "exception")

\* do_raise, lines 318-349: exc and cause are what the opcode popped, 0 for
\* None.  No exception was raised before on the state, so a raise without
\* exc is why = "exception" (320-323); an exc popped from the stack is a
\* Variable, neither a class nor an exception instance, and the state is
\* returned as it is (334-335)
do_raise(st, exc, cause) == IF exc = 0 THEN set_why(st, "exception") ELSE st

\* byte_RAISE_VARARGS_PY3, lines 1545-1554: [st, exc]
raise_varargs_py3(st, argc) ==
  LET popped == IF argc \in {1, 2} THEN popn_state(st, argc) ELSE st
      exc == IF argc \in {1, 2}
               THEN st.data_stack[Len(st.data_stack) - argc + 1] ELSE 0
      cause == IF argc = 2 THEN st.data_stack[Len(st.data_stack)] ELSE 0
  IN [st |-> do_raise(popped, exc, cause), exc |-> ""]

\* byte_RAISE_VARARGS, lines 1556-1560
byte_RAISE_VARARGS ==
  /\ AtOp("RAISE_VARARGS")
  /\ LET r == IF scen.python_version = 2
                THEN raise_varargs(Top.state, CurOp.arg)
                ELSE raise_varargs_py3(Top.state, CurOp.arg)
     IN Commit([h |-> Heap,
                st |-> IF r.exc # "" THEN raised(Top.state, r.exc) ELSE r.st,
                states |-> Top.states])
  /\ hist' = EmptyHist

\* a faulty variant: a name that is no local is looked up in the globals
load_fast_or_global(fr, name) ==
  IF load_from(fr, "locals", name) # 0 THEN load_from(fr, "locals", name)
  ELSE load_from(fr, "globals", name)

\* byte_LOAD_FAST, line 1132: load_local, 0 standing for the KeyError
load_fast(fr, name) == load_from(fr, "locals", name)

\* byte_LOAD_FAST, lines 1128-1137: a local that is not there raises
\* ByteCodeUnboundLocalError
byte_LOAD_FAST ==
  /\ AtOp("LOAD_FAST")
  /\ LET v == load_fast(Top, CurOp.arg)
     IN Commit([h |-> Heap,
                st |-> IF v = 0 THEN raised(Top.state, "ByteCodeException")
                       ELSE push(Top.state, v),
                states |-> Top.states])
  /\ hist' = EmptyHist

\* byte_JUMP_ABSOLUTE
byte_JUMP_ABSOLUTE ==
  /\ AtOp("JUMP_ABSOLUTE")
  /\ LET f == forward_cfg_node(Heap, Top.state)
         j == store_jump(f.h, Top.states, CurOp.target, f.st)
     IN Commit([h |-> j.h, st |-> Top.state, states |-> j.states])
  /\ hist' = EmptyHist

\* frame_state.split_conditions(node, condition, value) as _jump_if uses it
\* (lines 1401-1402): the condition under which value is true and the one
\* under which it is false, each satisfiable or not.  What the solver finds
\* is the environment's; a condition no binding of value is compatible with
\* is unsatisfiable.
split_conditions(h, value) ==
  {c \in [jump : BOOLEAN, normal : BOOLEAN] :
     /\ c.jump => MayBe(h, value, TRUE)
     /\ c.normal => MayBe(h, value, FALSE)}

\* a faulty variant: the conditions are those of a jump-if-true, whatever
\* the opcode
swap_conditions_never(c, jump_if_true) == c

\* lines 1403-1404: the conditions of a jump-if-false are the other way
\* round
swap_conditions(c, jump_if_true) ==
  IF jump_if_true THEN c ELSE [jump |-> c.normal, normal |-> c.jump]

\* a faulty variant: the state that jumps has lost the value tested
jump_state_popped(st, pop) == pop_and_discard(st)

\* lines 1397-1400: the state behind the test, the value popped or kept
jump_state(st, pop) == IF pop THEN pop_and_discard(st) ELSE st

\* _jump_if, lines 1381-1414, c being what split_conditions returned:
\* [h, st, states]
jump_if(h, fr, op, pop, jump_if_true, or_pop, c) ==
  LET conds == swap_conditions(c, jump_if_true)
      st0 == jump_state(fr.state, pop)
      f == forward_cfg_node(h, st0)
      j == IF conds.jump THEN store_jump(f.h, fr.states, op.target, f.st)
           ELSE [h |-> h, states |-> fr.states]
      st1 == IF or_pop THEN pop_and_discard(st0) ELSE st0
      n == forward_cfg_node(j.h, st1)
  IN IF ~conds.normal
       THEN [h |-> j.h, st |-> set_why(st1, "unsatisfiable"),
             states |-> j.states]
       ELSE [h |-> n.h, st |-> n.st, states |-> j.states]

\* the opcodes that are _jump_if (lines 1416-1432)
JumpIf(opname, pop, jump_if_true, or_pop) ==
  /\ AtOp(opname)
  /\ \E c \in split_conditions(Heap, top(Top.state)) :
       /\ Commit(jump_if(Heap, Top, CurOp, pop, jump_if_true, or_pop, c))
       /\ hist' = [EmptyHist EXCEPT !.jump =
                     [n |-> 1, may_true |-> c.jump, may_false |-> c.normal]]

byte_JUMP_IF_TRUE_OR_POP == JumpIf("JUMP_IF_TRUE_OR_POP", FALSE, TRUE, TRUE)

byte_JUMP_IF_FALSE_OR_POP == JumpIf("JUMP_IF_FALSE_OR_POP", FALSE, FALSE, TRUE)

byte_JUMP_IF_TRUE == JumpIf("JUMP_IF_TRUE", FALSE, TRUE, FALSE)

byte_JUMP_IF_FALSE == JumpIf("JUMP_IF_FALSE", FALSE, FALSE, FALSE)

byte_POP_JUMP_IF_TRUE == JumpIf("POP_JUMP_IF_TRUE", TRUE, TRUE, FALSE)

byte_POP_JUMP_IF_FALSE == JumpIf("POP_JUMP_IF_FALSE", TRUE, FALSE, FALSE)

\* byte_LOAD_ATTR, lines 1246-1252
byte_LOAD_ATTR ==
  /\ AtOp("LOAD_ATTR")
  /\ \E answers \in AnswersFor(vars, edges, top(Top.state),
                               Top.state.node) :
     \E r \in {load_attr(Heap, pop_and_discard(Top.state), top(Top.state),
                         CurOp.arg, <<Top.f_code, Top.opi>>, answers)} :
       /\ Commit([h |-> r.h, st |-> push(r.st, r.result),
                  states |-> Top.states])
       /\ hist' = [EmptyHist EXCEPT !.attr =
            [n |-> 1, obj |-> top(Top.state), node |-> Top.state.node,
             attr |-> CurOp.arg,
             vis |-> Bindings(vars, edges, top(Top.state), Top.state.node),
             answers |-> answers,
             errors |-> Added(errorlog, r.h.errorlog),
             result |-> r.result, retnode |-> r.st.node]]

\* the answers one dispatch may get: <<the lookup's, the candidates'>>
DispatchAnswers(h, st, name, obj, opcode) ==
  UNION {{<<answers, o>> :
            o \in OutsFor(load_attr_noerror(h, st, obj, name, opcode,
                                            answers))} :
         answers \in AnswersFor(h.vars, h.edges, obj, st.node)}

NoDispatch == {<<<<>>, <<>>>>}

\* the opcodes that are binary_operator(state, name), lines 974-1011, and
\* byte_BINARY_SUBSCR: subscr tells them apart.  L and R are the answers to
\* the dispatch to the left and to the right operand; the reflected method
\* is looked up in the state the dispatch to the left operand left.
BinaryOpcode(opname, name, subscr) ==
  /\ AtOp(opname)
  /\ \E L \in DispatchAnswers(Heap, popn_state(Top.state, 2), name,
                               topn(Top.state, 2)[1],
                               <<Top.f_code, Top.opi>>) :
     \E d \in {dispatch(NoResults(Heap, popn_state(Top.state, 2)), "left",
                        name, topn(Top.state, 2)[1], <<Top.f_code, Top.opi>>,
                        L[1], L[2])} :
     \E R \in IF UsesReverse(scen.reverse_operators,
                             reverse_operator_name(name))
                THEN DispatchAnswers(d.h, d.st, reverse_operator_name(name),
                                     topn(Top.state, 2)[2],
                                     <<Top.f_code, Top.opi>>)
                ELSE NoDispatch :
     \E r \in {IF subscr
                 THEN binary_subscr(Heap, Top.state, scen.reverse_operators,
                                    <<Top.f_code, Top.opi>>,
                                    L[1], L[2], R[1], R[2])
                 ELSE binary_operator(Heap, Top.state, name,
                                      scen.reverse_operators,
                                      <<Top.f_code, Top.opi>>,
                                      L[1], L[2], R[1], R[2])} :
       /\ Commit([h |-> r.h, st |-> r.st, states |-> Top.states])
       /\ hist' = [EmptyHist EXCEPT !.op =
            [n |-> 1, name |-> name, x |-> topn(Top.state, 2)[1],
             y |-> topn(Top.state, 2)[2], node |-> Top.state.node,
             trace |-> r.trace, calls |-> r.calls, reported |-> r.reported,
             joined |-> r.joined,
             errors |-> Added(errorlog, r.h.errorlog),
             result |-> r.result]]

byte_BINARY_ADD == BinaryOpcode("BINARY_ADD", "__add__", FALSE)

byte_BINARY_SUBSCR == BinaryOpcode("BINARY_SUBSCR", "__getitem__", TRUE)

\* byte_STORE_ATTR, lines 1254-1259
byte_STORE_ATTR ==
  /\ AtOp("STORE_ATTR")
  /\ \E a \in {topn(Top.state, 2)} :
     \E f \in {forward_cfg_node(Heap, popn_state(Top.state, 2))} :
     \E t \in {StoreTargets(f.h.vars, f.h.edges, a[2], f.st.node)} :
     \E answers \in [1..Len(t) -> StoreAnswers] :
     \E r \in {store_attr(f.h, f.st, a[2], a[1], answers)} :
       /\ Commit([h |-> r.h, st |-> r.st, states |-> Top.states])
       /\ hist' = [EmptyHist EXCEPT !.store =
            [n |-> 1, obj |-> a[2], node |-> f.st.node, before |-> f.st,
             vis |-> Bindings(f.h.vars, f.h.edges, a[2], f.st.node),
             targets |-> IF Len(f.h.vars[a[2]]) = 0 THEN <<>> ELSE t,
             nodes |-> r.nodes]]

\* the answers of the binary operator an in-place operator falls back to,
\* d being the dispatch of the in-place method: <<L, R>>
FallbackAnswers(d, name, x, y, opcode) ==
  IF d.results # <<>> THEN {<<<<<<>>, <<>>>>, <<<<>>, <<>>>>>>}
  ELSE UNION
    {{<<L, R>> :
        R \in IF UsesReverse(scen.reverse_operators,
                             reverse_operator_name(name))
                THEN LET dl == dispatch(NoResults(d.h, d.st), "left", name, x,
                                        opcode, L[1], L[2])
                     IN DispatchAnswers(dl.h, dl.st,
                                        reverse_operator_name(name), y, opcode)
                ELSE NoDispatch} :
     L \in DispatchAnswers(d.h, d.st, name, x, opcode)}

\* the opcodes that are inplace_operator(state, name), lines 1028-1065.  I
\* are the answers to the dispatch of the in-place method, F those of the
\* binary operator.
InplaceOpcode(opname) ==
  /\ AtOp(opname)
  /\ \E I \in DispatchAnswers(Heap, popn_state(Top.state, 2),
                               inplace_method(opname), topn(Top.state, 2)[1],
                               <<Top.f_code, Top.opi>>) :
     \E d \in {dispatch(NoResults(Heap, popn_state(Top.state, 2)), "left",
                        inplace_method(opname), topn(Top.state, 2)[1],
                        <<Top.f_code, Top.opi>>, I[1], I[2])} :
     \E F \in FallbackAnswers(d, replace_first(inplace_method(opname), "i"),
                              topn(Top.state, 2)[1], topn(Top.state, 2)[2],
                              <<Top.f_code, Top.opi>>) :
     \E r \in {inplace_operator(Heap, Top.state, inplace_method(opname),
                                scen.reverse_operators,
                                <<Top.f_code, Top.opi>>, I[1], I[2],
                                F[1][1], F[1][2], F[2][1], F[2][2])} :
       /\ Commit([h |-> r.h, st |-> r.st, states |-> Top.states])
       /\ hist' = [EmptyHist EXCEPT !.inplace =
            [n |-> 1, opname |-> opname, iname |-> inplace_method(opname),
             x |-> topn(Top.state, 2)[1], y |-> topn(Top.state, 2)[2],
             trace |-> r.trace, reported |-> r.reported,
             joined |-> r.joined,
             errors |-> Added(errorlog, r.h.errorlog),
             result |-> r.result]]

byte_INPLACE_ADD == InplaceOpcode("INPLACE_ADD")

byte_INPLACE_SUBTRACT == InplaceOpcode("INPLACE_SUBTRACT")

byte_INPLACE_MULTIPLY == InplaceOpcode("INPLACE_MULTIPLY")

byte_INPLACE_DIVIDE == InplaceOpcode("INPLACE_DIVIDE")

byte_INPLACE_MODULO == InplaceOpcode("INPLACE_MODULO")

byte_INPLACE_POWER == InplaceOpcode("INPLACE_POWER")

byte_INPLACE_LSHIFT == InplaceOpcode("INPLACE_LSHIFT")

byte_INPLACE_RSHIFT == InplaceOpcode("INPLACE_RSHIFT")

byte_INPLACE_AND == InplaceOpcode("INPLACE_AND")

byte_INPLACE_XOR == InplaceOpcode("INPLACE_XOR")

byte_INPLACE_OR == InplaceOpcode("INPLACE_OR")

byte_INPLACE_FLOOR_DIVIDE == InplaceOpcode("INPLACE_FLOOR_DIVIDE")

byte_INPLACE_TRUE_DIVIDE == InplaceOpcode("INPLACE_TRUE_DIVIDE")

\* run_frame, lines 190-193: behind the opcode loop of a block
run_frame_block_end ==
  /\ phase = "running"
  /\ frames # <<>>
  /\ Top.mode = "end"
  /\ LET fr == Top
         falls == fr.state.why = "none" /\ carry_on_to_next(CurOp)
         m == IF falls
                THEN merge_into(Heap, fr.state, fr.states[fr.opi + 1])
                ELSE [h |-> Heap, st |-> NoState]
     IN /\ frames' = [frames EXCEPT ![Len(frames)] =
             [fr EXCEPT
                !.return_nodes = IF fr.state.why \in {"return", "yield"}
                                   THEN Append(@, fr.state.node) ELSE @,
                !.states = IF falls THEN [@ EXCEPT ![fr.opi + 1] = m.st]
                           ELSE @,
                !.mode = "pick", !.blk = NextBlock(fr)]]
        /\ SetHeap(m.h)
  /\ UNCHANGED <<frame, nframes, phase, scen, final>>
  /\ hist' = EmptyHist

----------------------------------------------------------------------------
(* CALL_FUNCTION: call_function_from_stack and call_function, one         *)
(* candidate at a time, since a candidate may run a frame of its own.     *)

\* byte_CALL_FUNCTION with no arguments up to the loop of call_function:
\* the callable is popped and call_function's locals are set up
call_function_begin ==
  /\ AtOp("CALL_FUNCTION")
  /\ Len(vars[top(Top.state)]) > 0                           \* line 645
  /\ LET st == pop_and_discard(Top.state)
         i == call_function_init(Heap, st.node, top(Top.state), TRUE,
                                 <<Top.f_code, Top.opi>>)
     IN /\ frames' = [frames EXCEPT ![Len(frames)] =
                        [@ EXCEPT !.pre = Top.state, !.post = st,
                                  !.call = i.c]]
        /\ SetHeap(i.h)
  /\ UNCHANGED <<frame, nframes, phase, scen, final>>
  /\ hist' = EmptyHist

\* call_function is at a candidate
AtCandidate ==
  /\ phase = "running"
  /\ frames # <<>>
  /\ Top.call.active
  /\ Top.call.i <= Len(vars[Top.call.funcu])

CandidateData == vars[Top.call.funcu][Top.call.i].data

\* lines 649-663 for a candidate that is no interpreted function
call_candidate_value ==
  /\ AtCandidate
  /\ CandidateData \notin Functions
  /\ \E out \in OutcomesFor(CandidateData) :
     \E s \in {IF out.ok
                 THEN call_ok(Top.call, value_call(Heap, Top.call.node, out))
                 ELSE call_failed(Heap, Top.call)} :
       /\ frames' = [frames EXCEPT ![Len(frames)].call = s.c]
       /\ SetHeap(s.h)
  /\ UNCHANGED <<frame, nframes, phase, scen, final>>
  /\ hist' = EmptyHist

\* the ids of the frames of a call stack
FrameIds(fs) == [k \in 1..Len(fs) |-> fs[k].id]

\* make_frame raises RecursionException (lines 424-426); nothing between
\* there and run_instruction handles it, so the opcode ends with the state
\* it began with and why = "recursion" (lines 144-147)
call_candidate_recursion ==
  /\ AtCandidate
  /\ CandidateData \in Functions
  /\ IsRecursion(frames, FnCode(CandidateData))
  /\ Commit([h |-> Heap, st |-> set_why(Top.pre, "recursion"),
             states |-> Top.states])
  /\ hist' = [EmptyHist EXCEPT !.cut =
                [n |-> 1, code |-> FnCode(CandidateData),
                 before |-> FrameIds(frames), after |-> FrameIds(frames'),
                 made |-> nframes' - nframes,
                 errors |-> Len(errorlog') - Len(errorlog)]]

\* an interpreted function is called: make_frame builds its frame, with a
\* return variable of its own, and run_frame begins (lines 424-453, 174-175);
\* the frame of a generator function is run at once as well, through
\* resume_frame
call_candidate_frame ==
  /\ AtCandidate
  /\ CandidateData \in Functions
  /\ ~IsRecursion(frames, FnCode(CandidateData))
  /\ vars' = NewVariables(vars, frame_variables(FnCode(CandidateData)))
  /\ nframes' = nframes + 1
  /\ frames' = IF is_generator(FnCode(CandidateData))
                 THEN resume_frame(frames, nframes + 1, FnCode(CandidateData),
                                   Top.call.node, Len(vars) + 1)
                 ELSE StartFrame(frames, nframes + 1, FnCode(CandidateData),
                                 Top.call.node, Len(vars) + 1)
  /\ frame' = nframes + 1
  /\ UNCHANGED <<nnodes, edges, errorlog, phase, scen, f_globals, values,
                 complexity, final>>
  /\ hist' = EmptyHist

AtFrameEnd ==
  /\ phase = "running"
  /\ frames # <<>>
  /\ Top.mode = "pick"
  /\ Top.blk > Len(Code(Top.f_code).order)

\* run_frame, lines 194-200, returning to the call_function that called the
\* function: the frame is popped and its result is a successful candidate
run_frame_return ==
  /\ AtFrameEnd
  /\ Len(frames) > 1
  /\ \E p \in {pop_frame(frames)}, r \in {run_frame_result(nnodes, edges, Top)} :
     \E s \in {call_ok(p.frames[Len(p.frames)].call,
                       [h |-> [Heap EXCEPT !.nnodes = r.nnodes,
                                           !.edges = r.edges],
                        node |-> r.node, v |-> Top.return_variable])} :
       /\ frames' = [p.frames EXCEPT ![Len(p.frames)].call = s.c]
       /\ frame' = p.frame
       /\ SetHeap(s.h)
  /\ UNCHANGED <<nframes, phase, scen, final>>
  /\ hist' = EmptyHist

\* run_frame returning to run_bytecode and run_program (lines 551-554)
run_program_end ==
  /\ AtFrameEnd
  /\ Len(frames) = 1
  /\ LET p == pop_frame(frames)
         r == run_frame_result(nnodes, edges, Top)
     IN /\ frames' = p.frames
        /\ frame' = p.frame
        /\ nnodes' = r.nnodes
        /\ edges' = r.edges
        /\ final' = [node |-> r.node, ret |-> Top.return_variable]
  /\ phase' = "done"
  /\ Connected(edges, edges')
  /\ UNCHANGED <<nframes, vars, errorlog, scen, f_globals, values>>
  /\ hist' = EmptyHist

\* lines 664-674 and the rest of call_function_from_stack: the result is
\* pushed on the state the callable was popped from
call_function_end ==
  /\ phase = "running"
  /\ frames # <<>>
  /\ Top.call.active
  /\ Top.call.i > Len(vars[Top.call.funcu])
  /\ LET c == Top.call
         r == call_function_return(Heap, c)
     IN /\ Commit([h |-> r.h,
                   st |-> push(change_cfg_node(Top.post, r.node), r.ret),
                   states |-> Top.states])
        /\ hist' = [EmptyHist EXCEPT !.call =
                      CallRecord([h |-> Heap, c |-> c], r,
                                 Len(vars[c.funcu]))]

----------------------------------------------------------------------------
(* The governor at work: ProgramTooComplexError, and the graph core's    *)
(* own operations.                                                        *)

\* the graph is asked for a mutation with the governor tripped and raises
\* ProgramTooComplexError.  run_instruction does not handle it, nor do
\* run_frame, run_bytecode and run_program: the run is over.  (Handled, it
\* would end the opcode with why = "exception", lines 148-156.)
program_too_complex ==
  /\ phase \in {"running", "graph"}
  /\ Tripped
  /\ IF phase = "running" /\ frames # <<>>
          /\ Intercepts("ProgramTooComplexError")
       THEN /\ Commit([h |-> Heap, st |-> set_why(Top.state, "exception"),
                       states |-> Top.states])
            /\ hist' = EmptyHist
       ELSE /\ phase' = "aborted"
            /\ UNCHANGED <<frames, frame, nframes, vars, nnodes, edges,
                           errorlog, scen, f_globals, values, complexity,
                           final, hist>>

\* the nodes a client of the graph core makes
MaxNodes == 3

\* Program.NewCFGNode
NewCFGNode ==
  /\ phase = "graph"
  /\ ~Tripped
  /\ nnodes < MaxNodes
  /\ nnodes' = nnodes + 1
  /\ UNCHANGED <<frames, frame, nframes, vars, edges, errorlog, phase, scen,
                 f_globals, values, complexity, final, hist>>

\* CFGNode.ConnectTo
ConnectTo ==
  /\ phase = "graph"
  /\ \E a \in 1..nnodes, b \in 1..nnodes :
       /\ edges' = edges \cup {<<a, b>>}
       /\ Connected(edges, edges')
  /\ UNCHANGED <<frames, frame, nframes, vars, nnodes, errorlog, phase, scen,
                 f_globals, values, final, hist>>

\* CFGNode.ConnectNew
ConnectNew ==
  /\ phase = "graph"
  /\ nnodes < MaxNodes
  /\ \E a \in 1..nnodes :
       /\ nnodes' = nnodes + 1
       /\ edges' = edges \cup {<<a, nnodes + 1>>}
       /\ Connected(edges, edges')
  /\ UNCHANGED <<frames, frame, nframes, vars, errorlog, phase, scen,
                 f_globals, values, final, hist>>

----------------------------------------------------------------------------

\* the steps of run_program, run_frame and the opcodes of control flow and
\* calls
NextCalls ==
  \/ run_program
  \/ run_frame_skip_block
  \/ run_frame_enter_block
  \/ byte_LOAD_GLOBAL
  \/ byte_POP_TOP
  \/ byte_RETURN_VALUE
  \/ byte_JUMP_ABSOLUTE
  \/ byte_POP_JUMP_IF_FALSE
  \/ byte_YIELD_VALUE
  \/ byte_BREAK_LOOP
  \/ byte_CONTINUE_LOOP
  \/ byte_RAISE_VARARGS
  \/ byte_LOAD_FAST
  \/ call_function_begin
  \/ call_candidate_value
  \/ call_candidate_recursion
  \/ call_candidate_frame
  \/ call_function_end
  \/ run_frame_block_end
  \/ run_frame_return
  \/ run_program_end

Next ==
  \/ NextCalls
  \/ byte_LOAD_ATTR
  \/ byte_BINARY_ADD
  \/ byte_BINARY_SUBSCR
  \/ byte_LOAD_NAME
  \/ byte_STORE_NAME
  \/ byte_LOAD_CONST
  \/ byte_IMPORT_NAME
  \/ byte_IMPORT_FROM
  \/ byte_BUILD_TUPLE
  \/ byte_BUILD_MAP
  \/ byte_BUILD_CLASS
  \/ byte_BUILD_LIST
  \/ byte_STORE_SUBSCR
  \/ byte_STORE_DEREF
  \/ byte_LOAD_DEREF
  \/ byte_JUMP_IF_TRUE_OR_POP
  \/ byte_JUMP_IF_FALSE_OR_POP
  \/ byte_JUMP_IF_TRUE
  \/ byte_JUMP_IF_FALSE
  \/ byte_POP_JUMP_IF_TRUE
  \/ byte_STORE_ATTR
  \/ byte_INPLACE_ADD
  \/ byte_INPLACE_SUBTRACT
  \/ byte_INPLACE_MULTIPLY
  \/ byte_INPLACE_DIVIDE
  \/ byte_INPLACE_MODULO
  \/ byte_INPLACE_POWER
  \/ byte_INPLACE_LSHIFT
  \/ byte_INPLACE_RSHIFT
  \/ byte_INPLACE_AND
  \/ byte_INPLACE_XOR
  \/ byte_INPLACE_OR
  \/ byte_INPLACE_FLOOR_DIVIDE
  \/ byte_INPLACE_TRUE_DIVIDE
  \/ program_too_complex

Spec == Init /\ [][Next]_vars_all

\* The graph core on its own: a client that makes nodes and connects them
\* as it likes, with and without abort_on_complex.
GraphInit ==
  /\ scen \in {[Default EXCEPT !.abort_on_complex = a] : a \in BOOLEAN}
  /\ frames = <<>>
  /\ frame = 0
  /\ nframes = 0
  /\ vars = <<>>
  /\ nnodes = 1
  /\ edges = {}
  /\ errorlog = <<>>
  /\ phase = "graph"
  /\ f_globals = [n \in {} |-> 0]
  /\ values = NoValues
  /\ complexity = 0
  /\ final = [node |-> 0, ret |-> 0]
  /\ hist = EmptyHist

GraphNext ==
  \/ NewCFGNode
  \/ ConnectTo
  \/ ConnectNew
  \/ program_too_complex

GraphSpec == GraphInit /\ [][GraphNext]_vars_all

\* the modules that call: the programs with loops and with direct and mutual
\* recursion (the other modules are straight-line code of three or four
\* opcodes)
InitCalls == Init /\ scen.prog = "main_call"

\* The interpreter is one thread that runs until run_program returns: a
\* step that can be taken is taken.
FairSpec == InitCalls /\ [][NextCalls]_vars_all /\ WF_vars_all(NextCalls)

----------------------------------------------------------------------------
(* Properties of call_function *)

\* the call_function calls the step just taken completed: the one of a
\* CALL_FUNCTION opcode, or those of a binary operator's dispatch
CallRecords ==
  (IF hist.call.n = 1 THEN {hist.call} ELSE {})
    \cup {hist.op.calls[k] : k \in 1..Len(hist.op.calls)}

\* the candidates of call c that returned, and whether none did
Succeeded(c) == {k \in 1..Len(c.res) : c.res[k].ok}
AllFailed(c) == Succeeded(c) = {}

\* the data a sequence of bindings holds
BoundData(bs) == {bs[i].data : i \in 1..Len(bs)}

\* C1: call_function reports an error if and only if no candidate was called
\* successfully and the caller asked for the fallback; then it reports
\* exactly one invalid-call error for the whole call, returns a Variable
\* holding the give-up value and returns the node it was given.  As soon as
\* one candidate succeeds nothing is reported.
C1_ReportsOnceIffAllFail ==
  \A c \in CallRecords :
    /\ (c.errors # <<>>) <=> (AllFailed(c) /\ c.fallback)
    /\ c.errors # <<>> =>
         /\ Len(c.errors) = 1
         /\ c.errors[1].kind = "invalid_function_call"
         /\ BoundData(c.bindings) = {Unsolvable}
         /\ c.retnode = c.node

\* a call of two candidates that both failed, reported once
C1_Witness ==
  /\ hist.call.n = 1
  /\ hist.call.nb = 2
  /\ Len(hist.call.res) = 2
  /\ AllFailed(hist.call)
  /\ Len(hist.call.errors) = 1

\* the source sets of the origins of the bindings bs
SourceSetsOf(bs) ==
  UNION {UNION {o.source_sets : o \in bs[i].origins} : i \in 1..Len(bs)}

\* C2 (as the code has it): when a candidate succeeds, call_function returns
\* its one result Variable; it holds the data of the results of every
\* successful candidate and nothing else, and every result binding copied
\* has, at the node its candidate returned, a source set of exactly two
\* members: the candidate's result binding and the callable binding.
C2_ResultsMergedWithBothSources ==
  \A c \in CallRecords :
    Succeeded(c) # {} =>
      /\ c.ret = c.result
      /\ BoundData(c.bindings) = UNION {c.res[k].data : k \in Succeeded(c)}
      /\ \A k \in Succeeded(c) : \A j \in 1..Len(vars[c.res[k].v]) :
           \E i \in 1..Len(c.bindings) :
             /\ c.bindings[i].data = vars[c.res[k].v][j].data
             /\ \E o \in c.bindings[i].origins :
                  /\ o.where = c.res[k].node
                  /\ {<<c.res[k].v, j>>, <<c.funcu, k>>} \in o.source_sets
      /\ \A i \in 1..Len(c.bindings) : \A o \in c.bindings[i].origins :
           \A ss \in o.source_sets :
             \E k \in Succeeded(c) : \E j \in 1..Len(vars[c.res[k].v]) :
               /\ ss = {<<c.res[k].v, j>>, <<c.funcu, k>>}
               /\ o.where = c.res[k].node
               /\ c.bindings[i].data = vars[c.res[k].v][j].data

\* two candidates returned different data, and the result holds both
C2_Witness ==
  /\ hist.call.n = 1
  /\ Cardinality(Succeeded(hist.call)) = 2
  /\ Len(hist.call.bindings) = 2

\* C2 as stated: the source set of every result binding's origin is exactly
\* {the callable binding that triggered the call}.
C2_SourceSetIsTheCallable ==
  \A c \in CallRecords :
    Succeeded(c) # {} =>
      \A ss \in SourceSetsOf(c.bindings) :
        \E k \in Succeeded(c) : ss = {<<c.funcu, k>>}

\* C3: operator dispatch calls without the fallback, and such a call whose
\* candidates all fail reports nothing, returns the node it was given and
\* returns its result Variable without a binding: no give-up value is made.
C3_OptOutReportsNothing ==
  \A k \in 1..Len(hist.op.calls) :
    /\ ~hist.op.calls[k].fallback
    /\ AllFailed(hist.op.calls[k]) =>
         /\ hist.op.calls[k].errors = <<>>
         /\ hist.op.calls[k].retnode = hist.op.calls[k].node
         /\ hist.op.calls[k].ret = hist.op.calls[k].result
         /\ hist.op.calls[k].bindings = <<>>

\* an operator's method of two candidates that both failed
C3_Witness ==
  \E k \in 1..Len(hist.op.calls) :
    /\ hist.op.calls[k].nb = 2
    /\ AllFailed(hist.op.calls[k])
    /\ ~hist.op.calls[k].fallback

----------------------------------------------------------------------------
(* Properties of the recursion cut and of run_frame *)

\* call_function is at a candidate whose code object is on the call stack
AtRecursiveCandidate ==
  /\ AtCandidate
  /\ CandidateData \in Functions
  /\ \E k \in 1..Len(frames) : frames[k].f_code = FnCode(CandidateData)

\* C4: when a frame is asked for a code object that is on the call stack, no
\* frame is made or pushed, nothing is reported and the analysis goes on: the
\* call stack is the one before the call and the opcode ends with why =
\* "recursion" in the frame that made the call.
C4_RecursionCutQuietly ==
  [][AtRecursiveCandidate =>
       /\ FrameIds(frames') = FrameIds(frames)
       /\ nframes' = nframes
       /\ errorlog' = errorlog
       /\ phase' = "running"
       /\ hist'.cut.n = 1
       /\ frames'[Len(frames')].state.why = "recursion"]_vars_all

\* a cut in a function's frame: m2 calling m1, or f calling itself
C4_Witness ==
  /\ hist.cut.n = 1
  /\ Len(frames) >= 2
  /\ hist.cut.before = FrameIds(frames)
  /\ hist.cut.errors = 0
  /\ Top.state.why = "recursion"

\* the call just completed is the module's call of f, the function that
\* does nothing but call itself
CalledOnlyF ==
  /\ hist.call.n = 1
  /\ Len(frames) = 1
  /\ BoundData(vars[hist.call.funcu]) = {"fn_f"}

\* C5 as stated: the call of a function whose only path calls itself
\* returns a Variable that holds a binding of the give-up value.
C5_RecursiveCallYieldsGiveUp ==
  CalledOnlyF => Unsolvable \in BoundData(hist.call.bindings)

\* every block of a frame has been run at most once
NoBlockTwice ==
  \A k \in 1..Len(frames) : \A i, j \in 1..Len(frames[k].ran) :
    i # j => frames[k].ran[i] # frames[k].ran[j]

\* no code object is on the call stack twice
NoCodeTwice ==
  \A i, j \in 1..Len(frames) : i # j => frames[i].f_code # frames[j].f_code

\* C6: run_program returns for every program, those with a loop and with
\* direct or mutual recursion included: no block of a frame is run twice, no
\* code object is stacked twice, and the analysis reaches its end.
C6_Terminates == []NoBlockTwice /\ []NoCodeTwice /\ <>(phase = "done")

\* the analysis of a module that calls m1 (mutual recursion with m2) and
\* loop (a back-edge) has ended
C6_Witness ==
  /\ phase = "done"
  /\ scen.prog = "main_call"
  /\ BoundData(scen.g) = {"fn_m1", "fn_loop"}

----------------------------------------------------------------------------
(* Properties of load_attr *)

\* the visible bindings whose answer had the attribute
AttrHits ==
  {k \in 1..Len(hist.attr.vis) : hist.attr.answers[k] # "absent"}

\* the attribute errors load_attr reported
AttrErrors ==
  {i \in 1..Len(hist.attr.errors) :
     hist.attr.errors[i].kind \in {"attribute_error", "none_attr"}}

\* the data of the object's bindings visible at the node of the lookup
VisibleData ==
  {vars[hist.attr.obj][hist.attr.vis[k]].data : k \in 1..Len(hist.attr.vis)}

\* what the binding vis[k] contributes to the result
HitData(k) ==
  IF hist.attr.answers[k] = "tperr" THEN Unsolvable
  ELSE AttrOf(vars[hist.attr.obj][hist.attr.vis[k]].data)

\* C7: load_attr resolves the attribute on every binding of the object that
\* is visible at the node and merges what it finds into one Variable; it
\* reports an attribute error if and only if no such binding has the
\* attribute and the object has a binding at all.
C7_AttributeErrorIffAbsentEverywhere ==
  hist.attr.n = 1 =>
    /\ (AttrErrors # {}) <=>
         (AttrHits = {} /\ Len(vars[hist.attr.obj]) > 0)
    /\ AttrHits # {} =>
         BoundData(vars[hist.attr.result]) = {HitData(k) : k \in AttrHits}

\* the attribute is on one of two visible bindings: no error
C7_Witness ==
  /\ hist.attr.n = 1
  /\ Len(hist.attr.vis) = 2
  /\ Cardinality(AttrHits) = 1
  /\ hist.attr.errors = <<>>

\* C8: when the attribute is missing on every binding exactly one error is
\* reported; it is the None-specific one only if every value visible at the
\* node is None, and the generic one when None and another instance are
\* among them.
C8_NoneErrorOnlyIfAllNone ==
  (hist.attr.n = 1 /\ AttrHits = {} /\ Len(vars[hist.attr.obj]) > 0) =>
    /\ Len(hist.attr.errors) = 1
    /\ hist.attr.errors[1].kind \in {"attribute_error", "none_attr"}
    /\ hist.attr.errors[1].kind = "none_attr" => VisibleData \subseteq {NoneValue}
    /\ ({NoneValue} \subseteq VisibleData /\ VisibleData # {NoneValue}) =>
         hist.attr.errors[1].kind = "attribute_error"

\* None on one path, an instance without the attribute on another
C8_Witness ==
  /\ hist.attr.n = 1
  /\ AttrHits = {}
  /\ VisibleData = {NoneValue, "inst_a"}
  /\ Len(hist.attr.errors) = 1
  /\ hist.attr.errors[1].kind = "attribute_error"

----------------------------------------------------------------------------
(* Properties of the binary operators *)

\* the unsupported-operands errors the opcode left in the error log
Unsupported ==
  {i \in 1..Len(hist.op.errors) :
     hist.op.errors[i].kind = "unsupported_operands"}

\* C9: a binary operator reports unsupported operands only if the join of
\* the results of its dispatches has no binding, and at most once; with a
\* binding in the joined result it reports no such error.
C9_UnsupportedOnlyIfNoResult ==
  hist.op.n = 1 =>
    /\ Cardinality(Unsupported) <= 1
    /\ Cardinality(Unsupported) <= hist.op.reported
    /\ hist.op.reported = 1 => hist.op.joined = 0
    /\ hist.op.joined > 0 => Unsupported = {}

\* both dispatches of l + r were called and returned nothing: one error
C9_Witness ==
  /\ hist.op.n = 1
  /\ hist.op.name = "__add__"
  /\ Len(hist.op.calls) = 2
  /\ hist.op.joined = 0
  /\ Cardinality(Unsupported) = 1

\* the steps of the dispatch that concern the right operand
RightSteps == {i \in 1..Len(hist.op.trace) : hist.op.trace[i].side = "right"}

\* C10: the method of the left operand is looked up first and, when found,
\* called next; the reflected method of the right operand is looked up and
\* called only with the option reverse_operators on and for an operator of
\* the reversible set, and only behind every step of the left dispatch.
C10_LeftFirstReverseOnlyIfEnabled ==
  hist.op.n = 1 =>
    /\ Len(hist.op.trace) >= 1
    /\ hist.op.trace[1] =
         LookupStep("left", hist.op.name, hist.op.trace[1].found)
    /\ \A i \in 1..Len(hist.op.trace) :
         /\ hist.op.trace[i].what = "call" =>
              /\ i > 1
              /\ hist.op.trace[i - 1].what = "lookup"
              /\ hist.op.trace[i - 1].found
              /\ hist.op.trace[i - 1].side = hist.op.trace[i].side
         /\ (hist.op.trace[i].what = "lookup" /\ hist.op.trace[i].found) =>
              /\ i < Len(hist.op.trace)
              /\ hist.op.trace[i + 1].what = "call"
         /\ hist.op.trace[i].side = "left" =>
              hist.op.trace[i].name = hist.op.name
         /\ hist.op.trace[i].side = "right" =>
              /\ hist.op.trace[i].name = "__r" \o Tail2(hist.op.name)
              /\ \A j \in 1..Len(hist.op.trace) :
                   hist.op.trace[j].side = "left" => j < i
    /\ RightSteps # {} =>
         /\ scen.reverse_operators
         /\ hist.op.name \in reversable_operators

\* with the option on, l + r looked up and called __add__ on l and then
\* __radd__ on r
C10_Witness ==
  /\ hist.op.n = 1
  /\ scen.reverse_operators
  /\ Len(hist.op.trace) = 4
  /\ hist.op.trace[2].side = "left"
  /\ hist.op.trace[3] = LookupStep("right", "__radd__", TRUE)

----------------------------------------------------------------------------
(* Properties of name resolution *)

\* the state of the current frame after the step, and what the step pushed
TopAfter == frames'[Len(frames)].state
Pushed == TopAfter.data_stack[Len(TopAfter.data_stack)]

\* the entries the step added to the error log
Logged == SubSeq(errorlog', Len(errorlog) + 1, Len(errorlog'))

\* the step pushed one value and left the rest of the stack alone
PushedOne ==
  /\ Len(TopAfter.data_stack) = Len(Top.state.data_stack) + 1
  /\ SubSeq(TopAfter.data_stack, 1, Len(Top.state.data_stack))
       = Top.state.data_stack

\* variable v is new with the step and holds the give-up value alone
IsGiveUp(v) ==
  /\ v = Len(vars) + 1
  /\ Len(vars'[v]) = 1
  /\ vars'[v][1].data = Unsolvable

\* C13: LOAD_NAME resolves a name in the frame's locals, then the globals,
\* then the builtins; LOAD_GLOBAL in the globals, then the builtins, never
\* in the locals.  The first store that holds the name gives the value; a
\* name error is reported exactly when every store misses, and then a
\* give-up value is pushed.  Exactly one value is pushed in every case.
C13_NameResolution ==
  [][\A opname \in {"LOAD_NAME", "LOAD_GLOBAL"} : AtOp(opname) =>
       LET name == CurOp.arg
           locals == IF Top.new_locals THEN Top.f_locals ELSE f_globals
           inl == /\ opname = "LOAD_NAME"
                  /\ name \in DOMAIN locals
                  /\ locals[name] # 0
           ing == name \in DOMAIN f_globals /\ f_globals[name] # 0
           inb == \/ name \in special_builtins
                  \/ name \in DOMAIN f_builtins /\ f_builtins[name] # 0
       IN /\ PushedOne
          /\ inl => Pushed = locals[name]
          /\ ~inl /\ ing => Pushed = f_globals[name]
          /\ ~inl /\ ~ing /\ inb /\ name \notin special_builtins
               => Pushed = f_builtins[name]
          /\ inl \/ ing \/ inb => Logged = <<>> /\ ~IsGiveUp(Pushed)
          /\ ~(inl \/ ing \/ inb) =>
               /\ Len(Logged) = 1
               /\ Logged[1].kind = "name_error"
               /\ Logged[1].name = name
               /\ IsGiveUp(Pushed)]_vars_all

\* a function's LOAD_NAME has pushed the local it stored, a global of the
\* same name being there
C13_Witness ==
  /\ frames # <<>>
  /\ Top.f_code = "names_set"
  /\ Top.opi = 4
  /\ Top.new_locals
  /\ Top.f_locals["n"] # 0
  /\ Top.state.data_stack # <<>>
  /\ top(Top.state) = Top.f_locals["n"]
  /\ Lookup("n") \notin {0, Top.f_locals["n"]}

----------------------------------------------------------------------------
(* Properties of the opcodes that report an error *)

\* what an opcode that ends normally does to the depth of the data stack
StackEffect(op) ==
  CASE op.name \in {"LOAD_NAME", "LOAD_GLOBAL", "LOAD_CONST", "IMPORT_FROM",
                    "BUILD_MAP", "LOAD_DEREF", "LOAD_FAST"} -> 1
    [] op.name \in {"LOAD_ATTR", "CALL_FUNCTION", "JUMP_ABSOLUTE"} -> 0
    [] op.name \in {"BINARY_ADD", "BINARY_SUBSCR", "IMPORT_NAME", "POP_TOP",
                    "STORE_NAME", "POP_JUMP_IF_FALSE", "STORE_DEREF",
                    "POP_JUMP_IF_TRUE", "JUMP_IF_TRUE_OR_POP",
                    "JUMP_IF_FALSE_OR_POP"} \cup InplaceOpcodes -> -1
    [] op.name \in {"BUILD_TUPLE", "BUILD_LIST"} -> 1 - op.arg
    [] op.name \in {"BUILD_CLASS", "STORE_ATTR"} -> -2
    [] op.name = "STORE_SUBSCR" -> -3
    [] op.name = "RAISE_VARARGS" -> 0 - op.arg
    [] OTHER -> 0

\* the step ended the opcode of the current frame
EndsOpcode ==
  /\ phase = "running"
  /\ frames # <<>>
  /\ Len(frames') = Len(frames)
  /\ Top.mode = "ops"
  /\ frames'[Len(frames)].mode = "end" \/ frames'[Len(frames)].opi # Top.opi

\* the frame goes on behind the opcode: with the next opcode of the block,
\* or with the end of the block behind the block's last opcode
GoesOn ==
  LET fr == frames'[Len(frames)]
  IN IF Top.opi = BlockOf(Top)[2]
       THEN fr.mode = "end" /\ fr.opi = Top.opi
       ELSE fr.mode = "ops" /\ fr.opi = Top.opi + 1

\* C11: an opcode that reports an error (a failed call, a missing attribute
\* or name, an unsupported operator, a bad import, an invalid base class)
\* returns a state with why unset and with the stack as deep as the opcode
\* leaves it when nothing is reported, and the opcodes behind it still run.
C11_ErrorsDoNotStop ==
  [][/\ phase = "running" /\ Len(errorlog') > Len(errorlog) =>
          /\ EndsOpcode
          /\ TopAfter.why = "none"
          /\ Len(TopAfter.data_stack)
               = Len(Top.state.data_stack) + StackEffect(CurOp)
          /\ GoesOn
          /\ phase' = "running"
     /\ EndsOpcode /\ TopAfter.why = "none" /\ errorlog' = errorlog =>
          Len(TopAfter.data_stack)
            = Len(Top.state.data_stack) + StackEffect(CurOp)]_vars_all

\* an import was reported and two opcodes behind it have run in the same
\* frame
C11_Witness ==
  /\ frames # <<>>
  /\ Top.state.why = "none"
  /\ \E k \in 1..Len(errorlog) :
       /\ errorlog[k].kind \in {"import_error", "pyi_error"}
       /\ errorlog[k].opcode[1] = Top.f_code
       /\ Top.opi > errorlog[k].opcode[2] + 1

\* the errors of a failed call, a missing attribute, a missing name, an
\* unsupported operator and a bad import
GiveUpErrors ==
  {"invalid_function_call", "attribute_error", "none_attr", "name_error",
   "unsupported_operands", "import_error", "pyi_error", "import_from_error"}

\* C12: behind an opcode that reported a failed call, a missing attribute, a
\* missing name or global, an unsupported operator or a bad import, the
\* value on top of the stack is a Variable that holds the give-up value; it
\* is never a Variable without bindings.
C12_ErrorLeavesGiveUp ==
  [][phase = "running" /\ frames # <<>> /\ Len(frames') = Len(frames)
     /\ (\E k \in 1..Len(Logged) : Logged[k].kind \in GiveUpErrors) =>
        \E i \in 1..Len(vars'[Pushed]) : vars'[Pushed][i].data = Unsolvable
    ]_vars_all

----------------------------------------------------------------------------
(* Properties of the complexity governor *)

\* the most one connection costs: a node has no more successors than there
\* are nodes
WorstCost == MaxNodes

\* C14: with a ceiling K configured, the abort is raised before the counter
\* exceeds K plus the worst-case cost of one mutation; mutations that keep
\* the counter below K never raise it; once the ceiling is crossed every
\* further mutation of the graph fails and raises; the counter never
\* decreases.
C14_ComplexityCeiling ==
  /\ [](scen.abort_on_complex => complexity <= MaxComplexity + WorstCost)
  /\ [](phase = "graph" /\ scen.abort_on_complex
          /\ complexity > MaxComplexity => ENABLED program_too_complex)
  /\ [][/\ complexity' >= complexity
        /\ phase' = "aborted" /\ phase # "aborted" =>
             scen.abort_on_complex /\ complexity > MaxComplexity
        /\ scen.abort_on_complex /\ complexity > MaxComplexity =>
             edges' = edges /\ nnodes' = nnodes]_vars_all

\* the counter went over the ceiling by more than one and the abort was
\* raised
C14_Witness ==
  /\ scen.abort_on_complex
  /\ phase = "aborted"
  /\ frames = <<>>
  /\ complexity > MaxComplexity + 1

\* C15: a complexity abort raised during an opcode ends the whole run.  It
\* is not turned into a why value, a give-up value or an entry of the error
\* log: run_instruction handles only the recursion signal and the
\* exceptions of the bytecode, so the abort leaves run_instruction,
\* run_frame and run_program, and nothing runs behind it.
C15_AbortIsFatal ==
  /\ [](phase = "running" /\ frames # <<>> /\ Tripped
          => ENABLED (program_too_complex /\ phase' = "aborted"))
  /\ [][/\ phase' = "aborted" /\ phase # "aborted" =>
             /\ Tripped
             /\ frames' = frames
             /\ vars' = vars
             /\ errorlog' = errorlog
             /\ final' = final
        /\ phase = "aborted" => phase' = "aborted" /\ frames' = frames
        /\ Tripped /\ phase = "running" /\ frames # <<>>
             /\ Len(frames') = Len(frames) =>
             TopAfter.why \in {Top.state.why, "return", "recursion"}
       ]_vars_all

\* the abort was raised in the middle of a frame
C15_Witness ==
  /\ phase = "aborted"
  /\ frames # <<>>
  /\ Top.mode = "ops"
  /\ Top.opi > 1
  /\ final.node = 0

----------------------------------------------------------------------------
(* Properties of the typegraph as the machine uses it *)

\* the nodes a node of S can be reached from, S included
RECURSIVE Ancestors(_, _)
Ancestors(E, S) ==
  LET T == S \cup {e[1] : e \in {d \in E : d[2] \in S}}
  IN IF T = S THEN S ELSE Ancestors(E, T)

\* a binding that depends on no other binding: its source sets are empty
Unconditional(b) ==
  b.origins # {} /\ \A o \in b.origins : o.source_sets = {{}}

\* the unconditional bindings of variable v with an origin among nodes
BoundAt(v, nodes) ==
  {i \in 1..Len(vars[v]) :
     /\ Unconditional(vars[v][i])
     /\ \E o \in vars[v][i].origins : o.where \in nodes}

\* the unconditional bindings of variable v an origin of which reaches n
Reaching(v, n) == BoundAt(v, Ancestors(edges, {n}))

\* C16: a binding with an origin at node N and an empty source set is
\* visible at every node that can be reached from N and at no other node;
\* so the bindings _retrieve_attr looks an attribute up on are those whose
\* origin reaches the node of the lookup, all of them and no others.
C16_VisibleIffReachable ==
  /\ \A n \in 1..nnodes : \E from \in {Ancestors(edges, {n})} :
       \A v \in 1..Len(vars) : \A i \in 1..Len(vars[v]) :
         Unconditional(vars[v][i]) =>
           (Visible(vars, edges, <<v, i>>, n, {}) <=> i \in BoundAt(v, from))
  /\ hist.attr.n = 1
       /\ (\A i \in 1..Len(vars[hist.attr.obj]) :
             Unconditional(vars[hist.attr.obj][i])) =>
       /\ {hist.attr.vis[k] : k \in 1..Len(hist.attr.vis)}
            = Reaching(hist.attr.obj, hist.attr.node)
       /\ Reaching(hist.attr.obj, hist.attr.node) # {}
            /\ (\A k \in 1..Len(hist.attr.answers) :
                  hist.attr.answers[k] = "found") =>
            BoundData(vars[hist.attr.result])
              = {AttrOf(vars[hist.attr.obj][i].data) :
                   i \in Reaching(hist.attr.obj, hist.attr.node)}

\* an attribute was looked up on an object with one binding whose origin
\* reaches the node and one whose origin does not
C16_Witness ==
  /\ hist.attr.n = 1
  /\ Len(vars[hist.attr.obj]) = 2
  /\ Cardinality(Reaching(hist.attr.obj, hist.attr.node)) = 1
  /\ hist.attr.result # 0
  /\ \A k \in 1..Len(hist.attr.answers) : hist.attr.answers[k] = "found"

\* the data of the bindings of variable v that are visible at node n
DataAt(v, n) ==
  {vars[v][i].data : i \in {j \in 1..Len(vars[v]) :
                              Visible(vars, edges, <<v, j>>, n, {})}}

\* C17: join_variables of a list of exactly one Variable returns that
\* Variable itself, not a copy: what is visible of the result at any node
\* is what is visible of the input there.  (A binary operator with one
\* dispatch result joins a list of one.)
C17_JoinOfOneIsTheInput ==
  hist.op.n = 1 /\ Len(hist.op.calls) = 1 =>
    /\ hist.op.result = hist.op.calls[1].ret
    /\ hist.op.joined = Len(hist.op.calls[1].bindings)
    /\ \A n \in 1..nnodes :
         DataAt(hist.op.result, n) = DataAt(hist.op.calls[1].ret, n)

\* an operator's only dispatch returned a value
C17_Witness ==
  /\ hist.op.n = 1
  /\ Len(hist.op.calls) = 1
  /\ hist.op.joined > 0
  /\ hist.op.errors = <<>>

----------------------------------------------------------------------------
(* Properties of branches and containers *)

\* the blocks the current frame has run
RanBlocks == {Top.ran[k] : k \in 1..Len(Top.ran)}

\* the module code is at opcode opi, with the blocks of both branches run
BehindJoin(code, branches, opi) ==
  /\ frames # <<>>
  /\ Top.f_code = code
  /\ Top.mode = "ops"
  /\ Top.opi = opi
  /\ branches \subseteq RanBlocks

\* the element types of the lists and dicts among the data D, as visible at
\* node n
ElementTypes(D, n) ==
  UNION {DataAt(values[d].T, n) : d \in {e \in D : IsContainer(e)}}

\* C19: two branches store a different value to the same local and both
\* reach the join; the local loaded at the join holds the values of both
\* branches.  For a list of int on one branch and a list of str on the
\* other, the element type is int or str, never only one of them.
C19_JoinYieldsBothBranches ==
  BehindJoin("main_branch", {2, 3}, 12) =>
    /\ DataAt(top(Top.state), Top.state.node) = {"list_1", "list_2"}
    /\ ElementTypes(DataAt(top(Top.state), Top.state.node), Top.state.node)
         = {"int", "str"}

\* both branches ran and the local has been loaded behind the join
C19_Witness ==
  /\ BehindJoin("main_branch", {2, 3}, 12)
  /\ Len(vars[top(Top.state)]) = 2

\* the data the type parameter of container d holds
ParameterData(vs, vals, d) == BoundData(vs[vals[d].T])

Populated(d) == Len(vars[values[d].T]) > 0

\* a container never populated may be false and may not be true, a
\* populated one may be both, and an instance of I may be both
Truthiness(I) ==
  /\ \A d \in DOMAIN values :
       IsContainer(d) =>
         /\ compatible_with(Heap, d, FALSE)
         /\ compatible_with(Heap, d, TRUE) <=> Populated(d)
  /\ \A d \in I :
       compatible_with(Heap, d, TRUE) /\ compatible_with(Heap, d, FALSE)

\* a populated container stays compatible with both, and a test of a
\* container never populated does not go on into the branch of the true value
TruthinessStays ==
  [][/\ \A d \in DOMAIN values :
          IsContainer(d) /\ Populated(d) =>
            /\ compatible_with(Heap', d, TRUE)
            /\ compatible_with(Heap', d, FALSE)
     /\ (/\ AtOp("POP_JUMP_IF_FALSE")
         /\ \A i \in 1..Len(vars[top(Top.state)]) :
              /\ IsContainer(vars[top(Top.state)][i].data)
              /\ ~Populated(vars[top(Top.state)][i].data))
          => TopAfter.why = "unsatisfiable"]_vars_all

----------------------------------------------------------------------------
(* Properties of the error log *)

\* the reports of the same mistake as report k: the same opcode of the same
\* code object, the same kind of error about the same name
SameMistake(k) ==
  {j \in 1..Len(errorlog) :
     /\ errorlog[j].opcode = errorlog[k].opcode
     /\ errorlog[j].kind = errorlog[k].kind
     /\ errorlog[j].name = errorlog[k].name
     /\ errorlog[j].cause = errorlog[k].cause}

\* C21: a mistake that was reported, however often and from however many
\* calls of its code, is in the error log exactly once
C21_MistakeLoggedOnce ==
  \A k \in 1..Len(errorlog) :
    \E log \in {unique_errors(errorlog)} :
      Cardinality({j \in 1..Len(log) :
                     /\ log[j].opcode = errorlog[k].opcode
                     /\ log[j].kind = errorlog[k].kind
                     /\ log[j].name = errorlog[k].name
                     /\ log[j].cause = errorlog[k].cause}) = 1

\* the function was called twice and the attribute was missing both times:
\* two reports of the opcode of the function, one entry
C21_Witness ==
  /\ phase = "done"
  /\ scen.prog = "main_twice"
  /\ Len(errorlog) = 2
  /\ SameMistake(1) = {1, 2}
  /\ errorlog[1].opcode = <<"bad", 2>>
  /\ Len(unique_errors(errorlog)) = 1

----------------------------------------------------------------------------
(* Properties of the give-up value *)

\* the bindings bs are some, and all of the give-up value
OnlyGiveUp(bs) ==
  /\ bs # <<>>
  /\ \A i \in 1..Len(bs) : bs[i].data = Unsolvable

\* the values the attribute access just completed saw on its object were
\* some, and all the give-up value
AttrOnGiveUp ==
  /\ hist.attr.n = 1
  /\ hist.attr.vis # <<>>
  /\ \A k \in 1..Len(hist.attr.vis) :
       vars[hist.attr.obj][hist.attr.vis[k]].data = Unsolvable

\* the attribute of the give-up value and the result of calling it are the
\* give-up value alone, and nothing is reported
AccessAndCallAbsorb ==
  /\ AttrOnGiveUp =>
       /\ hist.attr.errors = <<>>
       /\ OnlyGiveUp(vars[hist.attr.result])
  /\ \A c \in CallRecords :
       OnlyGiveUp(vars[c.funcu]) =>
         /\ c.errors = <<>>
         /\ OnlyGiveUp(c.bindings)

\* the operator just completed had the give-up value alone for its left
\* operand
OperatorOnGiveUp == hist.op.n = 1 /\ OnlyGiveUp(vars[hist.op.x])

----------------------------------------------------------------------------
(* Properties of the typegraph under the interpreter *)

\* origin o of a binding is still there in the origins os, with every
\* source set it had
OriginKept(o, os) ==
  \E p \in os : p.where = o.where /\ o.source_sets \subseteq p.source_sets

\* the bindings bs of a Variable are all among the bindings cs, each in its
\* place, with its value and its origins
BindingsKept(bs, cs) ==
  /\ Len(bs) <= Len(cs)
  /\ \A i \in 1..Len(bs) :
       /\ cs[i].data = bs[i].data
       /\ \A o \in bs[i].origins : OriginKept(o, cs[i].origins)

\* C23: a step of the interpreter removes no Variable, no Binding of a
\* Variable, no Origin of a Binding and no source set of an Origin, and
\* changes the value of no Binding: what a step does to the typegraph is to
\* add
C23_BindingsAppendOnly ==
  [][/\ Len(vars) <= Len(vars')
     /\ \A v \in 1..Len(vars) : BindingsKept(vars[v], vars'[v])]_vars_all

\* the cell was stored to twice: it holds the value of the first store and
\* that of the second
C23_Witness ==
  /\ frames # <<>>
  /\ Top.f_code = "main_cell"
  /\ Top.opi = 5
  /\ Top.mode = "ops"
  /\ BoundData(vars[Top.cells[1]]) = {"inst_a", "inst_b"}
  /\ vars[Top.cells[1]][1].data = "inst_a"

----------------------------------------------------------------------------
(* Properties of run_frame's pass over the blocks *)

\* the current frame before the step is the current frame after it
SameFrame ==
  /\ frames # <<>>
  /\ Len(frames') = Len(frames)
  /\ phase' = "running"

\* the current frame after the step
FrameAfter == frames'[Len(frames)]

\* the blocks a frame has run are in program order, none twice, and none is
\* ahead of the block the loop is at
RanInOrder(fr) ==
  /\ \A i, j \in 1..Len(fr.ran) : i < j => fr.ran[i] < fr.ran[j]
  /\ \A i \in 1..Len(fr.ran) :
       IF fr.mode = "pick" THEN fr.ran[i] < fr.blk ELSE fr.ran[i] <= fr.blk

\* the loop is at a block: its opcodes are run, from its first on and with
\* the state recorded for it, if there is one; without, the block is left
ConsidersBlock ==
  IF Top.states[BlockOf(Top)[1]].live
    THEN /\ FrameAfter.mode = "ops"
         /\ FrameAfter.blk = Top.blk
         /\ FrameAfter.opi = BlockOf(Top)[1]
         /\ FrameAfter.state = Top.states[BlockOf(Top)[1]]
         /\ FrameAfter.ran = Append(Top.ran, Top.blk)
    ELSE /\ FrameAfter.mode = "pick"
         /\ FrameAfter.blk = Top.blk + 1
         /\ FrameAfter.ran = Top.ran

\* the loop stays at its block or moves to the one behind it in the order,
\* and a block is run only when the loop comes to it
MovesForward ==
  /\ FrameAfter.blk \in {Top.blk, Top.blk + 1}
  /\ FrameAfter.blk # Top.blk =>
       FrameAfter.mode = "pick" /\ Top.mode \in {"pick", "end"}
  /\ FrameAfter.ran # Top.ran => AtBlockLoop

\* C24: run_frame considers the blocks once each, in program order; the
\* opcodes of a block run if and only if a state is recorded for its first
\* opcode when the loop comes to it.  So a state recorded for a block the
\* loop has left (the target of a back-edge) is never run in that frame.
C24_SinglePassInOrder ==
  /\ [](\A k \in 1..Len(frames) : RanInOrder(frames[k]))
  /\ [][/\ (SameFrame /\ AtBlockLoop) => ConsidersBlock
        /\ SameFrame => MovesForward]_vars_all

\* the pass over the loop is over: its blocks were run once each, in order,
\* and the jump back to the head of the loop, run before, has recorded its
\* state there
C24_Witness ==
  /\ AtFrameEnd
  /\ Top.f_code = "loop"
  /\ Top.ran = <<1, 2, 3>>
  /\ \E e \in edges : e[2] = Top.states[1].node /\ e[1] > e[2]

----------------------------------------------------------------------------
(* Properties of the states recorded for the offsets of a frame *)

\* the opcodes that are _jump_if, by the value that makes them jump
JumpsIfTrue == {"JUMP_IF_TRUE_OR_POP", "JUMP_IF_TRUE", "POP_JUMP_IF_TRUE"}
JumpsIfFalse == {"JUMP_IF_FALSE_OR_POP", "JUMP_IF_FALSE", "POP_JUMP_IF_FALSE"}

\* the step runs a conditional jump whose jump condition was found
\* satisfiable
JumpTaken ==
  /\ hist'.jump.n = 1
  /\ \/ CurOp.name \in JumpsIfTrue /\ hist'.jump.may_true
     \/ CurOp.name \in JumpsIfFalse /\ hist'.jump.may_false

\* the offset of the current frame the step records a state for, 0 when it
\* records none: the offset behind a block that ends running, the target of
\* a jump
RecordsFor ==
  IF Top.mode = "end"
    THEN IF Top.state.why = "none" /\ carry_on_to_next(CurOp)
           THEN Top.opi + 1 ELSE 0
  ELSE IF Top.mode = "ops" /\ ~Top.call.active
    THEN IF CurOp.name = "JUMP_ABSOLUTE" \/ JumpTaken THEN CurOp.target
         ELSE 0
  ELSE 0

\* the data stack and the node of the state recorded
IncomingStack ==
  IF Top.mode = "ops" /\ CurOp.name \in {"POP_JUMP_IF_TRUE", "POP_JUMP_IF_FALSE"}
    THEN SubSeq(Top.state.data_stack, 1, Len(Top.state.data_stack) - 1)
    ELSE Top.state.data_stack
IncomingNode == IF Top.mode = "end" THEN Top.state.node ELSE nnodes + 1

\* the state old of an offset is still its state in new: at the same node,
\* with as many slots and no value of a slot lost
EntryKept(old, new) ==
  /\ new.live
  /\ new.node = old.node
  /\ new.why = old.why
  /\ Len(new.data_stack) = Len(old.data_stack)
  /\ \A k \in 1..Len(old.data_stack) :
       BoundData(vars[old.data_stack[k]])
         \subseteq BoundData(vars'[new.data_stack[k]])

\* the state recorded was merged into old, giving new: slot by slot the
\* values of both, and the node of the state recorded leads to that of old
MergedInto(old, new) ==
  /\ \A k \in 1..Len(old.data_stack) :
       BoundData(vars'[new.data_stack[k]])
         = BoundData(vars[old.data_stack[k]])
             \cup BoundData(vars[IncomingStack[k]])
  /\ <<IncomingNode, old.node>> \in edges'

\* C25: the first state recorded for an offset, by a jump or by the block
\* before running on, is the state of that offset; a state recorded for an
\* offset that has one is merged into it, slot by slot, and the state the
\* offset had is neither replaced nor lost
C25_StoreAndMerge ==
  [][SameFrame =>
       \A o \in DOMAIN Top.states :
         /\ Top.states[o].live => EntryKept(Top.states[o], FrameAfter.states[o])
         /\ (o = RecordsFor /\ ~Top.states[o].live) =>
              /\ FrameAfter.states[o].live
              /\ FrameAfter.states[o].node = IncomingNode
              /\ FrameAfter.states[o].data_stack = IncomingStack
         /\ (o = RecordsFor /\ Top.states[o].live) =>
              MergedInto(Top.states[o], FrameAfter.states[o])
         /\ o # RecordsFor => FrameAfter.states[o] = Top.states[o]]_vars_all

\* l or r: the jump recorded its state for the last opcode, with l on the
\* stack, and the state that fell through with r was merged into it
C25_Witness ==
  /\ frames # <<>>
  /\ Top.f_code = "main_or"
  /\ Top.mode = "pick"
  /\ Top.blk = 3
  /\ scen.l = Seen("inst_a")
  /\ Top.states[4].live
  /\ Top.ran = <<1, 2>>
  /\ BoundData(vars[Top.states[4].data_stack[1]]) = {"inst_a", "inst_b"}

----------------------------------------------------------------------------
(* Properties of the termination reason of a state *)

\* the opcodes a block never runs on behind
NoNext == {"RETURN_VALUE", "JUMP_ABSOLUTE", "JUMP_FORWARD", "RAISE_VARARGS",
           "BREAK_LOOP", "CONTINUE_LOOP"}

\* the step is the end of a block of the current frame
AtBlockEnd == SameFrame /\ Top.mode = "end"

\* the step records nothing: the states of the frame and the graph are as
\* they were
RecordsNothing ==
  /\ FrameAfter.states = Top.states
  /\ vars' = vars
  /\ edges' = edges
  /\ nnodes' = nnodes

\* the state the frame ended its block with is the state of the opcode
\* behind the block, or was merged into it
FallsThrough ==
  /\ Top.opi + 1 \in DOMAIN Top.states
  /\ FrameAfter.states[Top.opi + 1].live
  /\ IF Top.states[Top.opi + 1].live
       THEN <<Top.state.node, Top.states[Top.opi + 1].node>> \in edges'
       ELSE FrameAfter.states[Top.opi + 1] = Top.state

\* C26: an opcode runs on a state with why unset only; an opcode that
\* leaves why set ends the opcodes of its block, and at the end of such a
\* block no state is recorded for the block behind.  The state is recorded
\* for the opcode behind the block exactly when the block ends with why
\* unset and its last opcode carries on to the next.
C26_OnlyRunningPropagates ==
  /\ [](\A k \in 1..Len(frames) :
          frames[k].mode = "ops" => frames[k].state.why = "none")
  /\ [][/\ (SameFrame /\ EndsOpcode /\ TopAfter.why # "none") =>
             /\ FrameAfter.mode = "end"
             /\ FrameAfter.opi = Top.opi
        /\ AtBlockEnd =>
             /\ FrameAfter.mode = "pick"
             /\ FrameAfter.state = Top.state
             /\ IF Top.state.why = "none" /\ CurOp.name \notin NoNext
                  THEN FallsThrough
                  ELSE RecordsNothing]_vars_all

\* the generator has yielded, with opcodes of the block left to run; the
\* block was ended there, and the block behind it, which the jump did not
\* reach, has no state
C26_Witness ==
  /\ frames # <<>>
  /\ Top.f_code = "yield"
  /\ Top.mode = "pick"
  /\ Top.blk = 3
  /\ Top.ran = <<1, 2>>
  /\ Top.state.why = "yield"
  /\ Top.opi = 4
  /\ BlockOf([Top EXCEPT !.blk = 2])[2] = 5
  /\ ~Top.states[6].live

----------------------------------------------------------------------------
(* Properties of the node a frame returns *)

\* the step is run_frame's return: the frame is popped
FrameReturns == AtFrameEnd /\ Len(frames') = Len(frames) - 1

\* the node run_frame returned, as its caller has it after the step
ReturnedNode ==
  IF Len(frames) = 1 THEN final'.node
  ELSE LET c == frames'[Len(frames')].call IN c.nodes[Len(c.nodes)]

\* the nodes of the blocks that ended with why = return or yield are
\* collected block by block, and by nothing else
CollectsExits ==
  SameFrame =>
    FrameAfter.return_nodes =
      IF Top.mode = "end" /\ Top.state.why \in {"return", "yield"}
        THEN Append(Top.return_nodes, Top.state.node)
        ELSE Top.return_nodes

\* the join of the exit nodes R of a frame entered at node entry
ReturnsJoin(R, entry) ==
  /\ (R = <<>>) =>
       /\ ReturnedNode = entry
       /\ nnodes' = nnodes
       /\ edges' = edges
  /\ (Len(R) = 1) =>
       /\ ReturnedNode = R[1]
       /\ nnodes' = nnodes
       /\ edges' = edges
  /\ (Len(R) > 1) =>
       /\ ReturnedNode = nnodes + 1
       /\ nnodes' = nnodes + 1
       /\ \A e \in edges : e[1] # nnodes + 1 /\ e[2] # nnodes + 1
       /\ edges' = edges \cup {<<R[k], nnodes + 1>> : k \in 1..Len(R)}

\* C27: run_frame returns the join of the nodes of the blocks that ended
\* with why = return or yield: that node when there is one, a fresh node
\* with an edge from each of them when there are several, and the node the
\* frame was entered at when there is none.
C27_ReturnsJoinOfExits ==
  [][/\ CollectsExits
     /\ FrameReturns => ReturnsJoin(Top.return_nodes, Top.node)]_vars_all

\* a generator that yielded in one block and returned in another has come
\* back to its caller: the node of the call is the newest node, and the
\* two exit nodes, and nothing else, lead to it
C27_Witness ==
  /\ phase = "running"
  /\ frames # <<>>
  /\ Top.call.active
  /\ Top.call.i > 1
  /\ vars[Top.call.funcu][Top.call.i - 1].data = "fn_yield"
  /\ Top.call.nodes # <<>>
  /\ Top.call.nodes[Len(Top.call.nodes)] = nnodes
  /\ Cardinality({e \in edges : e[2] = nnodes}) = 2
  /\ \A e \in edges : e[1] # nnodes

\* a function that only raises has come back to its caller: the node of
\* the call is the node the frame was entered at
C27_WitnessNoExit ==
  /\ phase = "running"
  /\ frames # <<>>
  /\ Top.call.active
  /\ Top.call.i > 1
  /\ vars[Top.call.funcu][Top.call.i - 1].data = "fn_raise0"
  /\ Top.call.nodes = <<Top.call.node>>

----------------------------------------------------------------------------
(* Properties of the values of why *)

\* the termination reasons of a FrameState
Whys == {"none", "return", "yield", "exception", "reraise", "break",
         "continue", "unsatisfiable"}

\* the states of a frame: the one it is running on, the ones around a call
\* in progress and the ones recorded for its opcodes
StatesOf(fr) ==
  {fr.state, fr.pre, fr.post} \cup {fr.states[o] : o \in DOMAIN fr.states}

\* every state of every frame has its termination reason in W
WhyIn(W) ==
  \A k \in 1..Len(frames) : \A st \in StatesOf(frames[k]) : st.why \in W

\* C28 as stated: the termination reason of every state is one of none,
\* return, yield, exception, reraise, break, continue, unsatisfiable.
C28_WhyIsOfTheList == WhyIn(Whys)

\* C28: the termination reason of every state, the states run_instruction
\* returns included, is one of none, return, yield, exception, reraise,
\* break, continue, unsatisfiable, or recursion, the reason of an opcode
\* whose call was cut as a recursion.
C28_WhyIsOfTheListOrRecursion ==
  /\ WhyIn(Whys \cup {"recursion"})
  /\ [][(SameFrame /\ EndsOpcode) =>
          TopAfter.why \in (Whys \ {"reraise"}) \cup {"recursion"}]_vars_all

\* run_instruction has returned a state whose reason is recursion, in a
\* frame whose caller is in the middle of a call
C28_Witness ==
  /\ Len(frames) > 1
  /\ Top.state.why = "recursion"
  /\ Top.mode = "end"
  /\ frames[Len(frames) - 1].state.why = "none"
  /\ frames[Len(frames) - 1].call.active

\* run_instruction has returned a state whose reason is break
C28_WitnessBreak ==
  /\ frames # <<>>
  /\ Top.state.why = "break"
  /\ Top.mode = "end"

----------------------------------------------------------------------------
(* Properties of the conditional jumps *)

\* the step runs a conditional jump
JumpRuns == SameFrame /\ hist'.jump.n = 1

\* the condition under which the opcode of the step does not jump was found
\* satisfiable
NormalHolds ==
  \/ CurOp.name \in JumpsIfTrue /\ hist'.jump.may_false
  \/ CurOp.name \in JumpsIfFalse /\ hist'.jump.may_true

\* the step records a state of its own, at a node made by the step, for
\* the target of the jump
TargetRecorded ==
  /\ FrameAfter.states[CurOp.target].live
  /\ \E n \in (nnodes + 1)..nnodes' :
       IF Top.states[CurOp.target].live
         THEN <<n, Top.states[CurOp.target].node>> \in edges'
         ELSE FrameAfter.states[CurOp.target].node = n

\* C29: a conditional jump records a state for its target exactly when
\* the jump condition is satisfiable, and the state it returns is running
\* exactly when the other condition is satisfiable and has why =
\* unsatisfiable otherwise; the jump condition is that the value is true
\* for the jump-if-true opcodes and that it is false for the jump-if-false
\* opcodes.  No conditional jump adds an entry to the error log.
C29_BranchesBySatisfiability ==
  [][JumpRuns =>
       /\ IF JumpTaken THEN TargetRecorded
                       ELSE FrameAfter.states = Top.states
       /\ TopAfter.why = IF NormalHolds THEN "none" ELSE "unsatisfiable"
       /\ errorlog' = errorlog]_vars_all

\* `if c:` on a value that cannot be true: POP_JUMP_IF_FALSE recorded the
\* state of the else branch, the state that goes on is unsatisfiable, and
\* nothing was logged
C29_Witness ==
  /\ frames # <<>>
  /\ hist.jump.n = 1
  /\ CurOp.name = "POP_JUMP_IF_FALSE"
  /\ ~hist.jump.may_true
  /\ hist.jump.may_false
  /\ Top.state.why = "unsatisfiable"
  /\ Top.states[CurOp.target].live
  /\ errorlog = <<>>

\* `l or r` on a value that cannot be false: JUMP_IF_TRUE_OR_POP recorded
\* the state of the jump and the state that goes on is unsatisfiable
C29_WitnessTrue ==
  /\ frames # <<>>
  /\ hist.jump.n = 1
  /\ CurOp.name = "JUMP_IF_TRUE_OR_POP"
  /\ hist.jump.may_true
  /\ ~hist.jump.may_false
  /\ Top.state.why = "unsatisfiable"
  /\ Top.states[CurOp.target].live

\* the depth of the operand stack of a state
Depth(st) == Len(st.data_stack)

\* the depth the opcode of the step leaves at its target, for depth d
\* before it
DepthAtTarget(d) ==
  IF CurOp.name \in {"POP_JUMP_IF_TRUE", "POP_JUMP_IF_FALSE"} THEN d - 1
  ELSE d

\* the depth the opcode of the step leaves in the state it returns
DepthBehind(d) ==
  IF CurOp.name \in {"JUMP_IF_TRUE", "JUMP_IF_FALSE"} THEN d ELSE d - 1

\* C30: for depth d of the operand stack before a conditional jump,
\* POP_JUMP_IF_TRUE and POP_JUMP_IF_FALSE leave depth d - 1 in the state
\* recorded for the target and in the state that goes on,
\* JUMP_IF_TRUE_OR_POP and JUMP_IF_FALSE_OR_POP leave d at the target, the
\* value tested on top, and d - 1 in the state that goes on, JUMP_IF_TRUE
\* and JUMP_IF_FALSE leave d in both.
C30_StackEffectOfBranches ==
  [][JumpRuns =>
       /\ Depth(TopAfter) = DepthBehind(Depth(Top.state))
       /\ (JumpTaken /\ ~Top.states[CurOp.target].live) =>
            /\ Depth(FrameAfter.states[CurOp.target])
                 = DepthAtTarget(Depth(Top.state))
            /\ CurOp.name \in {"JUMP_IF_TRUE_OR_POP", "JUMP_IF_FALSE_OR_POP"}
                 => top(FrameAfter.states[CurOp.target]) = top(Top.state)]_vars_all

\* JUMP_IF_FALSE_OR_POP on a value that may be true and may be false: the
\* state recorded for the target has the value tested, the state that goes
\* on has not
C30_Witness ==
  /\ frames # <<>>
  /\ hist.jump.n = 1
  /\ CurOp.name = "JUMP_IF_FALSE_OR_POP"
  /\ hist.jump.may_true
  /\ hist.jump.may_false
  /\ Top.state.why = "none"
  /\ Depth(Top.states[CurOp.target]) = 1
  /\ Depth(Top.state) = 0

----------------------------------------------------------------------------
(* Properties of the call stack *)

\* the current frame is the top of the call stack, none when it is empty
CurrentIsTop == frame = IF frames = <<>> THEN 0 ELSE Top.id

\* the frames of the call stack are distinct frames
FramesDistinct ==
  \A i, j \in 1..Len(frames) : i # j => frames[i].id # frames[j].id

\* a step leaves the call stack as it is, pushes a frame made by the step,
\* or pops the top frame, whose blocks have all been considered
StackDiscipline ==
  LET a == FrameIds(frames)
      b == FrameIds(frames')
  IN \/ b = a /\ frame' = frame
     \/ /\ b = Append(a, nframes + 1)
        /\ nframes' = nframes + 1
        /\ frame' = nframes + 1
     \/ /\ AtFrameEnd
        /\ b = SubSeq(a, 1, Len(a) - 1)
        /\ frame' = IF b = <<>> THEN 0 ELSE b[Len(b)]

\* C31: run_frame pushes its frame and pops that very frame when it
\* completes, so that the call stack and the current frame are then what
\* they were before the call; the current frame is always the top of the
\* call stack, none when the stack is empty; run_program ends with an empty
\* call stack.
C31_CallStackDiscipline ==
  /\ [](CurrentIsTop /\ FramesDistinct)
  /\ [](phase = "done" => frames = <<>> /\ frame = 0)
  /\ [][StackDiscipline]_vars_all

\* a function called by the module has returned: the module's frame is the
\* only one on the stack and is the current one again
C31_Witness ==
  /\ phase = "running"
  /\ Len(frames) = 1
  /\ nframes > 1
  /\ Top.call.active
  /\ Top.call.i > 1
  /\ vars[Top.call.funcu][Top.call.i - 1].data \in Functions
  /\ Top.call.res # <<>>
  /\ frame = Top.id

----------------------------------------------------------------------------
(* Properties of BINARY_SUBSCR *)

\* the step runs BINARY_SUBSCR
SubscrRuns ==
  /\ SameFrame
  /\ hist'.op.n = 1
  /\ CurOp.name = "BINARY_SUBSCR"

\* v holds the give-up value
HoldsGiveUp(vs, v) == \E i \in 1..Len(vs[v]) : vs[v][i].data = Unsolvable

\* C32: BINARY_SUBSCR reports nothing when __getitem__ yields no result: if
\* the result of the operator has no bindings, the error log behind the
\* opcode is the one before it, the Variable pushed holds the give-up
\* value, and the state is running.  The value on top of the stack behind
\* BINARY_SUBSCR always has a binding.
C32_SubscrWithoutResult ==
  [][SubscrRuns =>
       /\ Len(vars'[Pushed]) >= 1
       /\ Pushed = hist'.op.result
       /\ hist'.op.joined = 0 =>
            /\ errorlog' = errorlog
            /\ HoldsGiveUp(vars', Pushed)
            /\ TopAfter.why = "none"]_vars_all

\* x[y] on a value without __getitem__: the operator reported the operands
\* as unsupported, the report was withdrawn and the result holds the
\* give-up value
C32_Witness ==
  /\ frames # <<>>
  /\ hist.op.n = 1
  /\ hist.op.name = "__getitem__"
  /\ hist.op.joined = 0
  /\ hist.op.reported = 1
  /\ errorlog = <<>>
  /\ Top.state.why = "none"
  /\ HoldsGiveUp(vars, top(Top.state))

----------------------------------------------------------------------------
(* Properties of the in-place operators *)

\* the step runs an in-place opcode
InplaceRuns == SameFrame /\ hist'.inplace.n = 1

\* the method of the BINARY_ opcode that matches an INPLACE_ opcode
MatchingBinary(opname) ==
  binary_method("BINARY_" \o SubSeq(opname, 9, Len(opname)))

\* the record h of an in-place opcode: the in-place method is looked up on
\* the left operand first; found, it is called and nothing else is tried;
\* not found, the method of the matching binary opcode is looked up on the
\* left operand, and a result without bindings is reported
InplaceDispatch(h) ==
  LET t == h.trace IN
  /\ h.opname \in InplaceOpcodes
  /\ MatchingBinary(h.opname) # ""
  /\ SubSeq(h.iname, 1, 3) = "__i"
  /\ Len(t) >= 1
  /\ t[1].what = "lookup" /\ t[1].side = "left" /\ t[1].name = h.iname
  /\ IF t[1].found
       THEN /\ Len(t) = 2
            /\ t[2].what = "call" /\ t[2].name = h.iname
            /\ \A k \in 1..Len(h.errors) :
                 h.errors[k].kind # "unsupported_operands"
       ELSE /\ Len(t) >= 2
            /\ t[2].what = "lookup" /\ t[2].side = "left"
            /\ t[2].name = MatchingBinary(h.opname)
            /\ \A k \in 2..Len(t) : t[k].name # h.iname
            /\ (h.joined = 0) <=>
                 (\E k \in 1..Len(h.errors) :
                    /\ h.errors[k].kind = "unsupported_operands"
                    /\ h.errors[k].name = MatchingBinary(h.opname))

\* C33: an in-place opcode looks its in-place method up on the left operand
\* first; only when no binding has it does it fall back to the binary
\* operator, whose method is, for each of the 13 in-place opcodes, that of
\* the matching BINARY_ opcode; when the fallback yields no result binding
\* either, the operands are reported as unsupported.
C33_InplaceFallsBack ==
  /\ \A o \in InplaceOpcodes :
       replace_first(inplace_method(o), "i") = MatchingBinary(o)
  /\ hist.inplace.n = 1 => InplaceDispatch(hist.inplace)

\* l //= r where l has neither __ifloordiv__ nor __floordiv__: both were
\* looked up, in this order, and the operands were reported
C33_Witness ==
  /\ hist.inplace.n = 1
  /\ hist.inplace.opname = "INPLACE_FLOOR_DIVIDE"
  /\ Len(hist.inplace.trace) = 2
  /\ ~hist.inplace.trace[1].found
  /\ hist.inplace.trace[2].name = "__floordiv__"
  /\ ~hist.inplace.trace[2].found
  /\ hist.inplace.joined = 0
  /\ Len(errorlog) = 1
  /\ errorlog[1].kind = "unsupported_operands"

----------------------------------------------------------------------------
(* Properties of store_attr *)

\* the step runs STORE_ATTR
StoreRuns == SameFrame /\ hist'.store.n = 1

\* the node store_attr returns for the record h of the step: the node of the
\* state unchanged without bindings, the join of the nodes set_attribute
\* returned otherwise
StoreJoins(h) ==
  /\ Len(h.nodes) = Len(h.targets)
  /\ (Len(vars[h.obj]) = 0) =>
       /\ h.targets = <<>>
       /\ TopAfter = h.before
       /\ vars' = vars
  /\ (Len(h.nodes) = 1) => TopAfter.node = h.nodes[1]
  /\ (Len(h.nodes) > 1) =>
       /\ TopAfter.node = nnodes'
       /\ \A k \in 1..Len(h.nodes) : <<h.nodes[k], nnodes'>> \in edges'
       /\ \A e \in edges : e[1] # nnodes' /\ e[2] # nnodes'
  /\ TopAfter.data_stack = h.before.data_stack
  /\ TopAfter.why = "none"

\* C34: store_attr applies set_attribute to exactly the bindings of the
\* object that are visible at the node of the state, and returns the state
\* at the join of the nodes set_attribute returned; for an object without
\* bindings it returns the state unchanged.
C34_StoresOnVisibleBindings ==
  [][StoreRuns =>
       /\ hist'.store.targets = hist'.store.vis
       /\ StoreJoins(hist'.store)]_vars_all

\* store_attr applies set_attribute to every binding of the object, visible
\* at the node or not, and returns the state at the join of the nodes
\* set_attribute returned; for an object without bindings it returns the
\* state unchanged.
StoresOnAllBindings ==
  [][StoreRuns =>
       /\ hist'.store.targets = [i \in 1..Len(vars[hist'.store.obj]) |-> i]
       /\ StoreJoins(hist'.store)]_vars_all

\* x.a = r was run with a value of x that is not visible at the node
StoredOnHidden ==
  /\ hist.store.n = 1
  /\ Len(hist.store.vis) < Len(hist.store.targets)

\* (l + r).a = r was run with a sum that has no bindings
StoredOnNothing ==
  /\ hist.store.n = 1
  /\ Len(vars[hist.store.obj]) = 0

----------------------------------------------------------------------------
(* Properties of the opcodes that raise *)

\* the step is a LOAD_FAST of a name the locals of the frame do not have
UnboundLocal ==
  /\ SameFrame /\ EndsOpcode
  /\ CurOp.name = "LOAD_FAST"
  /\ Top.new_locals
  /\ Top.f_locals[CurOp.arg] = 0

\* the step is a raise without arguments in a state without an exception
RaisesNothing ==
  /\ SameFrame /\ EndsOpcode
  /\ CurOp.name = "RAISE_VARARGS"
  /\ CurOp.arg = 0

\* the step is the cut of a recursive call
CutsRecursion == SameFrame /\ hist'.cut.n = 1

\* an opcode in progress works on the state it began with, which only the
\* end of the opcode replaces
StateKeptInOpcode ==
  /\ [](\A k \in 1..Len(frames) :
          frames[k].call.active => frames[k].pre = frames[k].state)
  /\ [][(SameFrame /\ Top.mode = "ops" /\ ~EndsOpcode) =>
          FrameAfter.state = Top.state]_vars_all

\* C35: when the handler of an opcode raises the recursion signal or an
\* exception of the bytecode, run_instruction returns the state the opcode
\* began with, its operand stack and node included, with why alone changed:
\* to recursion for the signal and to exception otherwise.  A LOAD_FAST of
\* a name the locals do not have ends with why = exception, pushes nothing,
\* does not look the name up in the globals and reports nothing.
C35_RaisingKeepsState ==
  /\ StateKeptInOpcode
  /\ [][/\ CutsRecursion => TopAfter = [Top.state EXCEPT !.why = "recursion"]
        /\ (UnboundLocal \/ RaisesNothing) =>
             TopAfter = [Top.state EXCEPT !.why = "exception"]
        /\ UnboundLocal =>
             /\ errorlog' = errorlog
             /\ vars' = vars]_vars_all

\* a function has loaded a local it never assigned, of the name of a global
\* of the module: its state is the one it was entered with but for why, and
\* the log is empty
C35_Witness ==
  /\ frames # <<>>
  /\ Top.f_code = "unbound"
  /\ Top.mode = "end"
  /\ Top.opi = 1
  /\ Lookup("n") # 0
  /\ Top.state = [Top.states[1] EXCEPT !.why = "exception"]
  /\ errorlog = <<>>

----------------------------------------------------------------------------
(* Properties of a callee that does not return *)

\* the frames below the current one, the frames of its callers
Callers(fs) == SubSeq(fs, 1, Len(fs) - 1)

\* the states of the frames fs
StatesOfFrames(fs) == [k \in 1..Len(fs) |-> fs[k].state]

\* what the caller has of the callee that returned in the step: the last
\* result of its call
Returned == LET c == frames'[Len(frames')].call IN c.res[Len(c.res)]

\* C36: a callee whose blocks end with why set does not end its caller: the
\* states of the callers are untouched while the callee runs; a callee none
\* of whose blocks ended with why = return or yield still returns, the node
\* it was entered at and its return Variable, as a successful candidate of
\* the call; and the caller's call opcode ends with why unset.
C36_CalleeFailureStaysInside ==
  [][/\ (Len(frames) > 1 /\ Len(frames') >= Len(frames)) =>
          StatesOfFrames(Callers(frames))
            = SubSeq(StatesOfFrames(frames'), 1, Len(frames) - 1)
     /\ (FrameReturns /\ Len(frames) > 1) =>
          /\ phase' = "running"
          /\ StatesOfFrames(frames') = StatesOfFrames(Callers(frames))
          /\ Returned.ok
          /\ Returned.v = Top.return_variable
          /\ Top.return_nodes = <<>> => Returned.node = Top.node
     /\ (SameFrame /\ hist'.call.n = 1 /\ CurOp.name = "CALL_FUNCTION") =>
          TopAfter.why = "none"]_vars_all

\* the module called a function that only raises: the call is over, it
\* returned the node it was made at, and the module goes on with why unset
C36_Witness ==
  /\ Len(frames) = 1
  /\ hist.call.n = 1
  /\ BoundData(vars[hist.call.funcu]) \subseteq {"fn_raise0", "fn_unbound"}
  /\ hist.call.reported = 0
  /\ hist.call.retnode = hist.call.node
  /\ Top.state.why = "none"
  /\ Top.state.node = hist.call.node

----------------------------------------------------------------------------
(* Properties of the failure a call reports *)

\* the call that ended reported its failure
CallReported == hist.call.n = 1 /\ hist.call.reported = 1

\* the candidates of the call that failed, in binding order
FailedCandidates == {i \in 1..Len(hist.call.res) : ~hist.call.res[i].ok}

\* C37: when every candidate of a call failed and the failure is reported,
\* the failure handed to the error log is the one kept as the call's error
\* cause, that of the first candidate that failed in binding order.
C37_ReportsFirstFailure ==
  CallReported =>
    \A k \in 1..Len(hist.call.errors) :
      hist.call.errors[k].kind = "invalid_function_call" =>
        /\ hist.call.errors[k].cause = hist.call.error
        /\ \A i \in FailedCandidates : hist.call.errors[k].cause <= i

\* what the code does: the failure reported is that of the last candidate
ReportsLastFailure ==
  CallReported =>
    \A k \in 1..Len(hist.call.errors) :
      hist.call.errors[k].kind = "invalid_function_call" =>
        \A i \in FailedCandidates : hist.call.errors[k].cause >= i

\* a call with two failing candidates was reported
TwoFailuresReported == CallReported /\ Cardinality(FailedCandidates) >= 2

----------------------------------------------------------------------------
(* Properties of RAISE_VARARGS *)

\* the step runs RAISE_VARARGS
Raises == SameFrame /\ AtOp("RAISE_VARARGS")

\* C38: after RAISE_VARARGS, for either Python version and any argument
\* count, the state run_instruction returns has why = "exception", so the
\* opcode loop of the block ends there; a raise is never without effect.
C38_RaiseEndsBlock ==
  [][Raises => /\ TopAfter.why = "exception"
               /\ FrameAfter.mode = "end"]_vars_all

\* what the code does: the raise of Python 2, and the raise of Python 3
\* without an exception to raise, end with why = "exception"; the raise of
\* Python 3 with one only pops its arguments
RaiseByVersion ==
  [][Raises =>
       /\ FrameAfter.mode = "end"
       /\ TopAfter.why =
            IF scen.python_version = 3 /\ CurOp.arg \in {1, 2}
              THEN "none" ELSE "exception"
       /\ TopAfter.node = Top.state.node
       /\ TopAfter.data_stack =
            IF scen.python_version = 3 /\ CurOp.arg \notin {1, 2}
              THEN Top.state.data_stack
              ELSE SubSeq(Top.state.data_stack, 1,
                          Len(Top.state.data_stack) - CurOp.arg)]_vars_all

\* a raise of Python 3 with an exception has run and why is unset
RaisedWithoutWhy ==
  /\ frames # <<>>
  /\ scen.python_version = 3
  /\ Top.mode = "end"
  /\ CurOp.name = "RAISE_VARARGS"
  /\ CurOp.arg \in {1, 2}
  /\ Top.state.why = "none"

----------------------------------------------------------------------------
(* Properties of the error for an attribute of None *)

\* load_attr reported the None-specific error
NoneAttrReported ==
  /\ hist.attr.n = 1
  /\ \E i \in AttrErrors : hist.attr.errors[i].kind = "none_attr"

\* the object has bindings, none of them visible at the node of the lookup
AllBindingsHidden ==
  /\ hist.attr.n = 1
  /\ Len(vars[hist.attr.obj]) > 0
  /\ hist.attr.vis = <<>>

\* C39: the None-specific attribute error is reported only when a binding
\* of the object visible at the node is None and all the visible ones are;
\* for an object with bindings none of which is visible at the node the
\* generic attribute error is reported.
C39_NoneErrorNeedsVisibleNone ==
  /\ NoneAttrReported => VisibleData = {NoneValue}
  /\ AllBindingsHidden =>
       /\ Len(hist.attr.errors) = 1
       /\ hist.attr.errors[1].kind = "attribute_error"

\* what the code does: the None-specific error is reported when no visible
\* value is anything but None, also when no value is visible
NoneErrorWithoutOther ==
  hist.attr.n = 1 =>
    /\ NoneAttrReported <=>
         /\ AttrHits = {}
         /\ Len(vars[hist.attr.obj]) > 0
         /\ VisibleData \subseteq {NoneValue}
    /\ AllBindingsHidden =>
         /\ Len(hist.attr.errors) = 1
         /\ hist.attr.errors[1].kind = "none_attr"

\* the None-specific error was reported for an object whose only binding, an
\* instance, is not visible at the node
NoneErrorWithoutNone ==
  /\ NoneAttrReported
  /\ AllBindingsHidden
  /\ BoundData(vars[hist.attr.obj]) = {"inst_a"}

----------------------------------------------------------------------------
(* Properties of the depth of the call stack *)

\* the values the globals of the program hold
GlobalData ==
  UNION {BoundData(vars[f_globals[n]]) :
           n \in {m \in DOMAIN f_globals : f_globals[m] # 0}}

\* the code objects of the analysed program: that of the module and those of
\* the functions it defines
CodeObjects == {scen.prog} \cup {FnCode(d) : d \in GlobalData \cap Functions}

\* a frame run through resume_frame is linked to the frame below it
ResumedOnCaller ==
  \A k \in 1..Len(frames) :
    frames[k].f_back # 0 => k > 1 /\ frames[k].f_back = frames[k - 1].id

C40_WitnessMutual ==
  /\ Len(frames) = 3
  /\ {frames[k].f_code : k \in 1..3} = {"main_call", "m1", "m2"}
  /\ hist.cut.n = 1

====
